---- MODULE Spec2Model ----
(***************************************************************************)
(* Model of the subscription converter: the four protocol decoders and     *)
(* their dispatcher (converters.py), the subscription decoder, the batch   *)
(* conversion loop and the configuration merger (convert_subscription.py). *)
(*                                                                         *)
(* Text is a sequence of Unicode code points (naturals); a byte string is  *)
(* a sequence of naturals below 256.  Str turns a literal into text.       *)
(***************************************************************************)
EXTENDS Integers, Sequences, FiniteSets, TLC

VARIABLES
    pc,        \* position of the running operation
    inLink,    \* the link handed to a decoder or to the dispatcher
    result,    \* what that call produced
    content,   \* the subscription payload handed to parse_subscription
    links,     \* the list of links being converted
    idx,       \* loop position of convert_links_to_proxies
    proxies,   \* the list convert_links_to_proxies is building
    files,     \* the file system: path -> contents
    args,      \* the arguments of the last update_yaml call
    loaded,    \* the document that call read from config_path
    data,      \* the document after the call's changes
    calls,     \* number of update_yaml calls made so far
    stdio,     \* what main has written: <<stream, text>> in order
    self_config_data, \* the window's document (self.config_data)
    template_loaded, \* a template has been loaded into the window
    proxy_groups,    \* the window's ProxyGroup objects, in order
    group_widgets,   \* the widgets made for them, in order
    manual_textbox,  \* the records the manual text box's content stands for
    created          \* number of ProxyGroup objects made so far

vars ==
    <<pc, inLink, result, content, links, idx, proxies, files, args, loaded, data, calls,
      stdio, self_config_data, template_loaded, proxy_groups, group_widgets,
      manual_textbox, created>>

\* The variables of each operation.
linkVars == <<inLink>>
subVars == <<content>>
convertVars == <<links, idx, proxies>>
mergeVars == <<files, args, loaded, data, calls>>
mainVars == <<stdio>>
guiVars ==
    <<self_config_data, template_loaded, proxy_groups, group_widgets, manual_textbox,
      created>>

\* No window has been opened.
NoWindow ==
    /\ self_config_data = [kind |-> "None"] /\ template_loaded = FALSE
    /\ proxy_groups = <<>> /\ group_widgets = <<>> /\ manual_textbox = <<>>
    /\ created = 0

-----------------------------------------------------------------------------
(* Text literals.                                                          *)

\* Printable ASCII: code points 32..95 and 97..126 (96 cannot be written in a literal).
PrintableLow ==
    " !\"#$%&'()*+,-./0123456789:;<=>?@ABCDEFGHIJKLMNOPQRSTUVWXYZ[\\]^_"
PrintableHigh == "abcdefghijklmnopqrstuvwxyz{|}~"

\* Code point of a one-character literal.
Ord(c) ==
    IF c = "\n" THEN 10
    ELSE IF c = "\r" THEN 13
    ELSE IF c = "\t" THEN 9
    ELSE IF \E i \in 1..Len(PrintableLow) : SubSeq(PrintableLow, i, i) = c
         THEN 31 + (CHOOSE i \in 1..Len(PrintableLow) : SubSeq(PrintableLow, i, i) = c)
    ELSE 96 + (CHOOSE i \in 1..Len(PrintableHigh) : SubSeq(PrintableHigh, i, i) = c)

\* The code points of the characters a literal can hold, as a table.
Characters ==
    {"\n", "\r", "\t"}
        \cup {SubSeq(PrintableLow, i, i) : i \in 1..Len(PrintableLow)}
        \cup {SubSeq(PrintableHigh, i, i) : i \in 1..Len(PrintableHigh)}
CodePoint == [c \in Characters |-> Ord(c)]

Str(s) == [i \in 1..Len(s) |-> CodePoint[SubSeq(s, i, i)]]

\* Python's None, and the marker of an exception leaving a call.
None == [kind |-> "None"]
Raised(e) == [kind |-> "raise", exc |-> e]
IsRaised(v) == v.kind = "raise"
PyStr(s) == [kind |-> "str", s |-> s]
PyInt(n) == [kind |-> "int", n |-> n]
PyBool(b) == [kind |-> "bool", b |-> b]
IsStr(v) == v.kind = "str"

-----------------------------------------------------------------------------
(* str methods.                                                            *)

Max(a, b) == IF a >= b THEN a ELSE b
Min(a, b) == IF a <= b THEN a ELSE b

StartsWithAt(s, sub, i) ==
    /\ i + Len(sub) - 1 <= Len(s)
    /\ \A k \in 1..Len(sub) : s[i + k - 1] = sub[k]

StartsWith(s, sub) == StartsWithAt(s, sub, 1)

\* str.find from position i (1-based); 0 when absent.
FindFrom(s, sub, i) ==
    LET hits == {k \in i..(Len(s) - Len(sub) + 1) : StartsWithAt(s, sub, k)}
    IN  IF hits = {} THEN 0 ELSE CHOOSE k \in hits : \A j \in hits : k <= j

Find(s, sub) == FindFrom(s, sub, 1)

Contains(s, sub) == Find(s, sub) # 0

\* str.rfind: the last occurrence; 0 when absent.
RFind(s, sub) ==
    LET hits == {k \in 1..(Len(s) - Len(sub) + 1) : StartsWithAt(s, sub, k)}
    IN  IF hits = {} THEN 0 ELSE CHOOSE k \in hits : \A j \in hits : k >= j

\* s[i:] and s[:i] with 1-based bounds.
From(s, i) == SubSeq(s, i, Len(s))
Upto(s, i) == SubSeq(s, 1, i)

\* str.split(sep): every non-overlapping occurrence, left to right.
RECURSIVE Split(_, _)
Split(s, sep) ==
    LET k == Find(s, sep)
    IN  IF k = 0 THEN <<s>>
        ELSE <<Upto(s, k - 1)>> \o Split(From(s, k + Len(sep)), sep)

\* str.split(sep, 1): at most one cut.
Split1(s, sep) ==
    LET k == Find(s, sep)
    IN  IF k = 0 THEN <<s>>
        ELSE <<Upto(s, k - 1), From(s, k + Len(sep))>>

\* str.partition(sep) and str.rpartition(sep) as <<before, found, after>>.
Partition(s, sep) ==
    LET k == Find(s, sep)
    IN  IF k = 0 THEN <<s, FALSE, <<>> >>
        ELSE <<Upto(s, k - 1), TRUE, From(s, k + Len(sep))>>

RPartition(s, sep) ==
    LET k == RFind(s, sep)
    IN  IF k = 0 THEN << <<>>, FALSE, s>>
        ELSE <<Upto(s, k - 1), TRUE, From(s, k + Len(sep))>>

\* str.lower on the Latin-1 range (other code points are left alone).
LowerCh(c) ==
    IF c \in 65..90 THEN c + 32
    ELSE IF c \in 192..222 /\ c # 215 THEN c + 32
    ELSE c
Lower(s) == [i \in 1..Len(s) |-> LowerCh(s[i])]

\* str.isspace for one code point.
IsSpace(c) ==
    \/ c \in 9..13
    \/ c \in 28..32
    \/ c \in {133, 160, 5760, 8232, 8233, 8239, 8287, 12288}
    \/ c \in 8192..8202

\* str.strip().
Strip(s) ==
    LET keep == {k \in 1..Len(s) : ~IsSpace(s[k])}
    IN  IF keep = {} THEN <<>>
        ELSE SubSeq(s, CHOOSE k \in keep : \A j \in keep : k <= j,
                       CHOOSE k \in keep : \A j \in keep : k >= j)

\* "".join(s.split()): the text without its whitespace.
RemoveWhitespace(s) == SelectSeq(s, LAMBDA c : ~IsSpace(c))

\* The line boundaries of str.splitlines().
IsLineBreak(c) == c \in 10..13 \/ c \in 28..30 \/ c \in {133, 8232, 8233}

\* str.splitlines(): "\r\n" is one boundary; no empty last line.
RECURSIVE SplitLines(_)
SplitLines(s) ==
    LET brk == {k \in 1..Len(s) : IsLineBreak(s[k])}
    IN  IF s = <<>> THEN <<>>
        ELSE IF brk = {} THEN <<s>>
        ELSE LET k == CHOOSE b \in brk : \A j \in brk : b <= j
                 n == IF s[k] = 13 /\ k < Len(s) /\ s[k + 1] = 10 THEN k + 2 ELSE k + 1
             IN  <<Upto(s, k - 1)>> \o SplitLines(From(s, n))

\* sep.join(parts).
RECURSIVE Join(_, _)
Join(parts, sep) ==
    IF parts = <<>> THEN <<>>
    ELSE IF Len(parts) = 1 THEN parts[1]
    ELSE parts[1] \o sep \o Join(Tail(parts), sep)

\* A loop over positions lo..hi of s: step(st, s, i) is one iteration and a
\* state with done set ends the loop.  The range is halved so that the
\* evaluation depth stays logarithmic in its length.
RECURSIVE Loop(_, _, _, _, _)
Loop(step(_, _, _), s, lo, hi, st) ==
    IF st.done \/ lo > hi THEN st
    ELSE IF lo = hi THEN step(st, s, lo)
    ELSE LET mid == (lo + hi) \div 2
             first == Loop(step, s, lo, mid, st)
         IN  IF first.done THEN first ELSE Loop(step, s, mid + 1, hi, first)

\* [f(x) for x in seq]
Map(seq, f(_)) == [i \in 1..Len(seq) |-> f(seq[i])]

-----------------------------------------------------------------------------
(* base64 and UTF-8, as the standard library computes them.                *)

\* Value of a base64 digit, 64 for a character outside the alphabet.
B64Val(c) ==
    IF c \in 65..90 THEN c - 65
    ELSE IF c \in 97..122 THEN c - 71
    ELSE IF c \in 48..57 THEN c + 4
    ELSE IF c = 43 THEN 62
    ELSE IF c = 47 THEN 63
    ELSE 64

\* One character of binascii.a2b_base64 without strict mode: a character
\* outside the alphabet is dropped, a completed pad sequence ends the scan.
B64Step(st, s, i) ==
    LET c == s[i]
        v == B64Val(c)
    IN  IF c = 61
        THEN IF st.quad >= 2 /\ st.quad + st.pads + 1 >= 4
             THEN [st EXCEPT !.done = TRUE]
             ELSE [st EXCEPT !.pads = IF st.quad >= 2 THEN @ + 1 ELSE @]
        ELSE IF v >= 64 THEN st
        ELSE IF st.quad = 0
             THEN [st EXCEPT !.quad = 1, !.left = v, !.pads = 0]
        ELSE IF st.quad = 1
             THEN [st EXCEPT !.quad = 2, !.left = v % 16, !.pads = 0,
                             !.out = Append(@, st.left * 4 + (v \div 16))]
        ELSE IF st.quad = 2
             THEN [st EXCEPT !.quad = 3, !.left = v % 4, !.pads = 0,
                             !.out = Append(@, st.left * 16 + (v \div 4))]
        ELSE [st EXCEPT !.quad = 0, !.left = 0, !.pads = 0,
                        !.out = Append(@, st.left * 64 + v)]

\* binascii.a2b_base64(data): an incomplete last quad is an error.
B64Scan(s) ==
    LET st == Loop(B64Step, s, 1, Len(s),
                   [done |-> FALSE, quad |-> 0, left |-> 0, pads |-> 0, out |-> <<>>])
    IN  IF ~st.done /\ st.quad # 0 THEN Raised("binascii.Error")
        ELSE [kind |-> "bytes", b |-> st.out]

\* base64.b64decode(text): the text must be ASCII.
B64Decode(s) ==
    IF \E k \in 1..Len(s) : s[k] >= 128 THEN Raised("ValueError")
    ELSE B64Scan(s)

\* base64.urlsafe_b64decode(text): '-' and '_' stand for '+' and '/'.
UrlsafeB64Decode(s) ==
    IF \E k \in 1..Len(s) : s[k] >= 128 THEN Raised("ValueError")
    ELSE B64Scan([k \in 1..Len(s) |->
                     IF s[k] = 45 THEN 43 ELSE IF s[k] = 95 THEN 47 ELSE s[k]])

\* The base64 digit of a 6-bit value.
B64Digit(v) ==
    IF v < 26 THEN v + 65
    ELSE IF v < 52 THEN v + 71
    ELSE IF v < 62 THEN v - 4
    ELSE IF v = 62 THEN 43
    ELSE 47

\* base64.b64encode(bytes), as text: digit j of quad g, '=' past the data.
B64Encode(b) ==
    LET n == Len(b)
        at(k) == IF k <= n THEN b[k] ELSE 0
        digit(g, j) ==
            LET b1 == at(3 * g + 1)
                b2 == at(3 * g + 2)
                b3 == at(3 * g + 3)
            IN  IF j = 1 THEN B64Digit(b1 \div 4)
                ELSE IF j = 2 THEN B64Digit((b1 % 4) * 16 + (b2 \div 16))
                ELSE IF j = 3
                     THEN IF 3 * g + 2 > n THEN 61
                          ELSE B64Digit((b2 % 16) * 4 + (b3 \div 64))
                ELSE IF 3 * g + 3 > n THEN 61 ELSE B64Digit(b3 % 64)
    IN  [k \in 1..(4 * ((n + 2) \div 3)) |-> digit((k - 1) \div 4, ((k - 1) % 4) + 1)]

\* The continuation bytes a UTF-8 lead byte asks for, the range of the first
\* of them and the payload bits of the lead; need = 0 for an invalid lead.
Utf8Lead(b) ==
    IF b \in 194..223 THEN [need |-> 1, lo |-> 128, hi |-> 191, bits |-> b % 32]
    ELSE IF b = 224 THEN [need |-> 2, lo |-> 160, hi |-> 191, bits |-> b % 16]
    ELSE IF b = 237 THEN [need |-> 2, lo |-> 128, hi |-> 159, bits |-> b % 16]
    ELSE IF b \in 225..239 THEN [need |-> 2, lo |-> 128, hi |-> 191, bits |-> b % 16]
    ELSE IF b = 240 THEN [need |-> 3, lo |-> 144, hi |-> 191, bits |-> b % 8]
    ELSE IF b = 244 THEN [need |-> 3, lo |-> 128, hi |-> 143, bits |-> b % 8]
    ELSE IF b \in 241..243 THEN [need |-> 3, lo |-> 128, hi |-> 191, bits |-> b % 8]
    ELSE [need |-> 0, lo |-> 0, hi |-> 0, bits |-> 0]

\* The decoder at the first byte of a character.
Utf8Start(st, b) ==
    LET ld == Utf8Lead(b)
    IN  IF b < 128 THEN [st EXCEPT !.out = Append(@, b)]
        ELSE IF ld.need = 0
             THEN IF st.strict THEN [st EXCEPT !.done = TRUE, !.err = TRUE]
                  ELSE [st EXCEPT !.out = Append(@, 65533)]
        ELSE [st EXCEPT !.need = ld.need, !.cp = ld.bits, !.lo = ld.lo, !.hi = ld.hi]

\* One byte of bytes.decode("utf-8", errors): an ill-formed maximal subpart
\* becomes U+FFFD under "replace" and is an error under "strict"; the byte
\* that ended it starts the next character.
Utf8Step(st, b, i) ==
    IF st.need = 0 THEN Utf8Start(st, b[i])
    ELSE IF b[i] \in st.lo..st.hi
         THEN IF st.need = 1
              THEN [st EXCEPT !.need = 0, !.out = Append(@, st.cp * 64 + (b[i] % 64))]
              ELSE [st EXCEPT !.need = @ - 1, !.cp = @ * 64 + (b[i] % 64),
                              !.lo = 128, !.hi = 191]
    ELSE IF st.strict THEN [st EXCEPT !.done = TRUE, !.err = TRUE]
    ELSE Utf8Start([st EXCEPT !.need = 0, !.out = Append(@, 65533)], b[i])

\* bytes.decode("utf-8", errors): a truncated last character is ill-formed.
Utf8Decode(b, strict) ==
    LET st == Loop(Utf8Step, b, 1, Len(b),
                   [done |-> FALSE, err |-> FALSE, strict |-> strict, need |-> 0,
                    cp |-> 0, lo |-> 0, hi |-> 0, out |-> <<>>])
    IN  IF st.err \/ (strict /\ st.need > 0) THEN Raised("UnicodeDecodeError")
        ELSE PyStr(IF st.need > 0 THEN Append(st.out, 65533) ELSE st.out)

\* str.encode("utf-8") for text of code points below 2048.
Utf8EncodeStep(st, s, i) ==
    [st EXCEPT !.out = @ \o (IF s[i] < 128 THEN <<s[i]>>
                             ELSE <<192 + (s[i] \div 64), 128 + (s[i] % 64)>>)]
Utf8Encode(s) ==
    Loop(Utf8EncodeStep, s, 1, Len(s), [done |-> FALSE, out |-> <<>>]).out

-----------------------------------------------------------------------------
(* urllib.parse and int(), as the decoders use them.                       *)

IsDigit(c) == c \in 48..57
IsAlpha(c) == c \in 65..90 \/ c \in 97..122
IsHex(c) == c \in 48..57 \/ c \in 65..70 \/ c \in 97..102
HexVal(c) == IF c \in 48..57 THEN c - 48 ELSE IF c \in 65..70 THEN c - 55 ELSE c - 87

\* The value of a run of decimal digits.
RECURSIVE Digits(_, _)
Digits(s, acc) == IF s = <<>> THEN acc ELSE Digits(Tail(s), acc * 10 + (s[1] - 48))

\* int(text): surrounding whitespace, one optional sign, decimal digits with
\* single underscores between them; anything else raises ValueError.
IntParse(t) ==
    LET s == Strip(t)
        signed == s # <<>> /\ s[1] \in {43, 45}
        body == IF signed THEN Tail(s) ELSE s
        ok == /\ body # <<>>
              /\ \A k \in 1..Len(body) : IsDigit(body[k]) \/ body[k] = 95
              /\ IsDigit(body[1]) /\ IsDigit(body[Len(body)])
              /\ \A k \in 1..(Len(body) - 1) : ~(body[k] = 95 /\ body[k + 1] = 95)
        n == Digits(SelectSeq(body, IsDigit), 0)
    IN  IF ~ok THEN Raised("ValueError")
        ELSE PyInt(IF signed /\ s[1] = 45 THEN 0 - n ELSE n)

\* The bracketed hosts ipaddress accepts, among those the links use.
BracketedHosts == {Str("::1")}

\* url.lstrip(C0 control or space), then every tab, CR and LF removed.
UrlClean(url) ==
    LET keep == {k \in 1..Len(url) : url[k] > 32}
        cut == IF keep = {} THEN <<>>
               ELSE From(url, CHOOSE k \in keep : \A j \in keep : k <= j)
    IN  SelectSeq(cut, LAMBDA c : c \notin {9, 10, 13})

\* urlsplit's scheme rule: a leading run of scheme characters before the
\* first ':' is taken off, together with the ':'.
AfterScheme(url) ==
    LET i == Find(url, Str(":"))
    IN  IF /\ i > 1
           /\ IsAlpha(url[1])
           /\ \A k \in 1..(i - 1) :
                 IsAlpha(url[k]) \/ IsDigit(url[k]) \/ url[k] \in {43, 45, 46}
        THEN From(url, i + 1)
        ELSE url

\* _splitnetloc(url, 2): the authority ends at the first of "/?#".
SplitNetloc(url) ==
    LET ends == {k \in 3..Len(url) : url[k] \in {47, 63, 35}}
        delim == IF ends = {} THEN Len(url) + 1
                 ELSE CHOOSE k \in ends : \A j \in ends : k <= j
    IN  <<SubSeq(url, 3, delim - 1), From(url, delim)>>

\* urllib.parse.urlparse(link): the authority and the query, or ValueError
\* for unbalanced brackets or a bracketed host that is no IP literal.
UrlParse(link) ==
    LET url == AfterScheme(UrlClean(link))
        hasNet == StartsWith(url, Str("//"))
        netloc == IF hasNet THEN SplitNetloc(url)[1] ELSE <<>>
        rest == IF hasNet THEN SplitNetloc(url)[2] ELSE url
        open == Contains(netloc, Str("["))
        close == Contains(netloc, Str("]"))
        bracketed == Partition(Partition(netloc, Str("["))[3], Str("]"))[1]
        noFrag == Split1(rest, Str("#"))[1]
        qparts == Split1(noFrag, Str("?"))
    IN  IF open # close THEN Raised("ValueError")
        ELSE IF open /\ close /\ bracketed \notin BracketedHosts
             THEN Raised("ValueError")
        ELSE [kind |-> "url", netloc |-> netloc,
              query |-> IF Len(qparts) = 2 THEN qparts[2] ELSE <<>>]

\* SplitResult._hostinfo as <<hostname, port text>>.
HostInfo(u) ==
    LET hostinfo == RPartition(u.netloc, Str("@"))[3]
        br == Partition(hostinfo, Str("["))
        inner == Partition(br[3], Str("]"))
        plain == Partition(hostinfo, Str(":"))
    IN  IF br[2] THEN <<inner[1], Partition(inner[3], Str(":"))[3]>>
        ELSE <<plain[1], plain[3]>>

\* SplitResult.hostname: None when empty, lower-cased up to a '%' zone.
UrlHostname(u) ==
    LET h == HostInfo(u)[1]
        z == Partition(h, Str("%"))
    IN  IF h = <<>> THEN None
        ELSE PyStr(Lower(z[1]) \o (IF z[2] THEN Str("%") ELSE <<>>) \o z[3])

\* SplitResult.port: None when absent, ValueError unless decimal in 0..65535.
UrlPort(u) ==
    LET p == HostInfo(u)[2]
    IN  IF p = <<>> THEN None
        ELSE IF ~(\A k \in 1..Len(p) : IsDigit(p[k])) THEN Raised("ValueError")
        ELSE IF Digits(p, 0) > 65535 THEN Raised("ValueError")
        ELSE PyInt(Digits(p, 0))

\* SplitResult.username: None without '@', else the user info up to ':'.
UrlUsername(u) ==
    LET info == RPartition(u.netloc, Str("@"))
    IN  IF info[2] THEN PyStr(Partition(info[1], Str(":"))[1]) ELSE None

\* unquote_to_bytes on ASCII text: "%xx" with two hex digits is one byte.
PercentStep(st, s, i) ==
    IF st.skip > 0 THEN [st EXCEPT !.skip = @ - 1]
    ELSE IF s[i] = 37 /\ i + 2 <= Len(s) /\ IsHex(s[i + 1]) /\ IsHex(s[i + 2])
         THEN [st EXCEPT !.skip = 2,
                         !.out = Append(@, HexVal(s[i + 1]) * 16 + HexVal(s[i + 2]))]
    ELSE [st EXCEPT !.out = Append(@, s[i])]
PercentBytes(s) ==
    Loop(PercentStep, s, 1, Len(s), [done |-> FALSE, skip |-> 0, out |-> <<>>]).out

\* Length of the leading run of ASCII (asc = TRUE) or non-ASCII characters.
RunLen(s, asc) ==
    LET ends == {k \in 1..Len(s) : (s[k] < 128) # asc}
    IN  IF ends = {} THEN Len(s) ELSE (CHOOSE k \in ends : \A j \in ends : k <= j) - 1

\* unquote's pass over the text: each ASCII run is percent-decoded and read
\* as UTF-8 with replacement, the other characters are kept.
RECURSIVE UnquoteRuns(_)
UnquoteRuns(s) ==
    IF s = <<>> THEN <<>>
    ELSE IF s[1] < 128
         THEN LET n == RunLen(s, TRUE)
              IN  Utf8Decode(PercentBytes(Upto(s, n)), FALSE).s
                  \o UnquoteRuns(From(s, n + 1))
    ELSE LET n == RunLen(s, FALSE)
         IN  Upto(s, n) \o UnquoteRuns(From(s, n + 1))

\* urllib.parse.unquote(text).
Unquote(s) == IF ~Contains(s, Str("%")) THEN s ELSE UnquoteRuns(s)

\* One "name=value" field of parse_qsl: <<name, value>>, or <<>> when the
\* field has no '=' or a blank value.
QsField(nv) ==
    LET parts == Split1(nv, Str("="))
        plus(t) == [k \in 1..Len(t) |-> IF t[k] = 43 THEN 32 ELSE t[k]]
    IN  IF Len(parts) # 2 \/ parts[2] = <<>> THEN <<>>
        ELSE <<Unquote(plus(parts[1])), Unquote(plus(parts[2]))>>

\* urllib.parse.parse_qsl(query): the fields in order.
ParseQsl(query) ==
    IF query = <<>> THEN <<>>
    ELSE SelectSeq(Map(Split(query, Str("&")), QsField), LAMBDA f : f # <<>>)

\* "key in qs" and q(key, default) over parse_qs(query).
QsHas(pairs, key) == \E k \in 1..Len(pairs) : pairs[k][1] = key
QsGet(pairs, key, default) ==
    IF QsHas(pairs, key)
    THEN PyStr(pairs[CHOOSE k \in 1..Len(pairs) :
                        /\ pairs[k][1] = key
                        /\ \A j \in 1..(k - 1) : pairs[j][1] # key][2])
    ELSE default

-----------------------------------------------------------------------------
(* json.loads.  A JSON value is None, PyBool, PyInt, PyStr, a float kept   *)
(* as its literal text, a list, or a dict as its <<key, value>> items in   *)
(* document order.  \u escapes are read without surrogate pairing.         *)

PyFloat(t) == [kind |-> "float", text |-> t]
PyList(items) == [kind |-> "list", items |-> items]
PyDict(items) == [kind |-> "dict", items |-> items]
JFail == [ok |-> FALSE, val |-> None, next |-> 0]
JOk(v, n) == [ok |-> TRUE, val |-> v, next |-> n]

\* The first position at or after i that holds no JSON whitespace.
RECURSIVE SkipWs(_, _)
SkipWs(s, i) ==
    IF i <= Len(s) /\ s[i] \in {32, 9, 10, 13} THEN SkipWs(s, i + 1) ELSE i

\* The end (exclusive) of the run of digits starting at i.
RECURSIVE DigitsEnd(_, _)
DigitsEnd(s, i) == IF i <= Len(s) /\ IsDigit(s[i]) THEN DigitsEnd(s, i + 1) ELSE i

\* A number at i: -?(0|[1-9]\d*)(\.\d+)?([eE][-+]?\d+)?
JNumber(s, i) ==
    LET neg == i <= Len(s) /\ s[i] = 45
        d0 == IF neg THEN i + 1 ELSE i
        d1 == IF d0 <= Len(s) /\ s[d0] = 48 THEN d0 + 1 ELSE DigitsEnd(s, d0)
        f1 == IF d1 <= Len(s) /\ s[d1] = 46 /\ DigitsEnd(s, d1 + 1) > d1 + 1
              THEN DigitsEnd(s, d1 + 1) ELSE d1
        e0 == IF f1 + 1 <= Len(s) /\ s[f1] \in {69, 101} /\ s[f1 + 1] \in {43, 45}
              THEN f1 + 2 ELSE f1 + 1
        e1 == IF f1 <= Len(s) /\ s[f1] \in {69, 101} /\ DigitsEnd(s, e0) > e0
              THEN DigitsEnd(s, e0) ELSE f1
        n == Digits(SubSeq(s, d0, d1 - 1), 0)
    IN  IF d1 = d0 THEN JFail
        ELSE IF e1 > d1 THEN JOk(PyFloat(SubSeq(s, i, e1 - 1)), e1)
        ELSE JOk(PyInt(IF neg THEN 0 - n ELSE n), d1)

\* The character a one-letter escape stands for, 0 when it is none.
JEscape(c) ==
    IF c \in {34, 92, 47} THEN c
    ELSE IF c = 98 THEN 8
    ELSE IF c = 102 THEN 12
    ELSE IF c = 110 THEN 10
    ELSE IF c = 114 THEN 13
    ELSE IF c = 116 THEN 9
    ELSE 0

\* One character of a string: the closing quote ends it, a control character
\* or a bad escape fails it.
JStringStep(st, s, i) ==
    IF st.skip > 0 THEN [st EXCEPT !.skip = @ - 1]
    ELSE IF s[i] = 34 THEN [st EXCEPT !.done = TRUE, !.ok = TRUE, !.next = i + 1]
    ELSE IF s[i] < 32 THEN [st EXCEPT !.done = TRUE]
    ELSE IF s[i] # 92 THEN [st EXCEPT !.acc = Append(@, s[i])]
    ELSE IF i + 1 > Len(s) THEN [st EXCEPT !.done = TRUE]
    ELSE IF s[i + 1] = 117
         THEN IF i + 5 <= Len(s) /\ \A k \in 2..5 : IsHex(s[i + k])
              THEN [st EXCEPT !.skip = 5,
                       !.acc = Append(@, HexVal(s[i + 2]) * 4096 + HexVal(s[i + 3]) * 256
                                         + HexVal(s[i + 4]) * 16 + HexVal(s[i + 5]))]
              ELSE [st EXCEPT !.done = TRUE]
    ELSE IF JEscape(s[i + 1]) = 0 THEN [st EXCEPT !.done = TRUE]
    ELSE [st EXCEPT !.skip = 1, !.acc = Append(@, JEscape(s[i + 1]))]

\* The rest of a string whose opening quote is before i.
JString(s, i) ==
    LET st == Loop(JStringStep, s, i, Len(s),
                   [done |-> FALSE, ok |-> FALSE, skip |-> 0, next |-> 0, acc |-> <<>>])
    IN  IF st.ok THEN JOk(PyStr(st.acc), st.next) ELSE JFail

JLiterals ==
    << <<Str("null"), None>>, <<Str("true"), PyBool(TRUE)>>,
       <<Str("false"), PyBool(FALSE)>>, <<Str("NaN"), PyFloat(Str("NaN"))>>,
       <<Str("Infinity"), PyFloat(Str("Infinity"))>>,
       <<Str("-Infinity"), PyFloat(Str("-Infinity"))>> >>

RECURSIVE JValue(_, _), JItemStep(_, _, _)

\* The end of one item of an object or array: ',' goes on with the next
\* item, the closing character ends the container.
JItemEnd(st, s, ok, e, item, close) ==
    IF ~ok \/ e > Len(s) THEN [st EXCEPT !.done = TRUE]
    ELSE IF s[e] = close
         THEN [st EXCEPT !.done = TRUE, !.ok = TRUE, !.pos = e + 1,
                         !.items = Append(@, item)]
    ELSE IF s[e] = 44
         THEN [st EXCEPT !.pos = SkipWs(s, e + 1), !.items = Append(@, item)]
    ELSE [st EXCEPT !.done = TRUE]

\* The value val of an item has been scanned; key is the member's name.
JItemVal(st, s, key, val, close) ==
    JItemEnd(st, s, val.ok, IF val.ok THEN SkipWs(s, val.next) ELSE 0,
             IF val.ok /\ st.obj THEN <<key.s, val.val>> ELSE val.val, close)

\* The name of a member has been scanned, the next character is at c: after
\* the ':' comes the value.
JMemberColon(st, s, key, c) ==
    JItemVal(st, s, key.val,
             IF key.ok /\ c <= Len(s) /\ s[c] = 58
             THEN JValue(s, SkipWs(s, c + 1)) ELSE JFail, 125)

JMemberKey(st, s, key) ==
    JMemberColon(st, s, key, IF key.ok THEN SkipWs(s, key.next) ELSE 0)

\* One "key": value pair at st.pos, then ',' or the closing brace.
JMemberStep(st, s, n) ==
    JMemberKey(st, s, IF st.pos <= Len(s) /\ s[st.pos] = 34
                      THEN JString(s, st.pos + 1) ELSE JFail)

\* One array element at st.pos, then ',' or the closing bracket.
JElementStep(st, s, n) == JItemVal(st, s, None, JValue(s, st.pos), 93)

\* One iteration of the member loop of an object or of the element loop of
\* an array.
JItemStep(st, s, n) ==
    IF st.obj THEN JMemberStep(st, s, n) ELSE JElementStep(st, s, n)

\* The container whose items have been scanned with final state st.
JContainerEnd(s, i, st) ==
    IF ~st.ok THEN JFail
    ELSE JOk(IF s[i] = 123 THEN PyDict(st.items) ELSE PyList(st.items), st.pos)

\* The object or array opened at i, whose first item would start at j.
JContainer(s, i, j) ==
    IF j <= Len(s) /\ s[j] = s[i] + 2
    THEN JOk(IF s[i] = 123 THEN PyDict(<<>>) ELSE PyList(<<>>), j + 1)
    ELSE JContainerEnd(s, i, Loop(JItemStep, s, 1, Len(s),
                                  [done |-> FALSE, ok |-> FALSE, obj |-> s[i] = 123,
                                   pos |-> j, items |-> <<>>]))

JLiteralAt(s, i, k) == JOk(JLiterals[k][2], i + Len(JLiterals[k][1]))

\* The value starting at i.
JValue(s, i) ==
    IF i > Len(s) THEN JFail
    ELSE IF s[i] = 34 THEN JString(s, i + 1)
    ELSE IF s[i] \in {123, 91} THEN JContainer(s, i, SkipWs(s, i + 1))
    ELSE IF \E k \in 1..Len(JLiterals) : StartsWithAt(s, JLiterals[k][1], i)
         THEN JLiteralAt(s, i, CHOOSE k \in 1..Len(JLiterals) :
                                   StartsWithAt(s, JLiterals[k][1], i))
    ELSE JNumber(s, i)

\* json.loads(text): one value with nothing but whitespace around it.
JsonEnd(s, v) ==
    IF v.ok /\ SkipWs(s, v.next) = Len(s) + 1 THEN v.val
    ELSE Raised("JSONDecodeError")
JsonLoads(s) == JsonEnd(s, JValue(s, SkipWs(s, 1)))

\* dict.get(key, default): the last item with that key.
DictHas(d, key) == \E k \in 1..Len(d.items) : d.items[k][1] = key
DictGet(d, key, default) ==
    IF DictHas(d, key)
    THEN d.items[CHOOSE k \in 1..Len(d.items) :
                    /\ d.items[k][1] = key
                    /\ \A j \in (k + 1)..Len(d.items) : d.items[j][1] # key][2]
    ELSE default

-----------------------------------------------------------------------------
(* converters.py: the four decoders and the dispatcher.  A proxy record    *)
(* is a record of Python values; a key the dict does not have is Absent.   *)
(* A ...Body operator is the body of a try block: it yields the record or  *)
(* the exception that leaves the block.                                    *)

Absent == [kind |-> "absent"]
Truthy(v) ==
    IF v.kind = "None" THEN FALSE
    ELSE IF v.kind = "bool" THEN v.b
    ELSE IF v.kind = "str" THEN v.s # <<>>
    ELSE IF v.kind = "int" THEN v.n # 0
    ELSE IF v.kind \in {"list", "dict"} THEN v.items # <<>>
    ELSE TRUE
\* a or b
PyOr(a, b) == IF Truthy(a) THEN a ELSE b

\* An except clause that lets the exception through.
Reraise(r) == r

\* except Exception: return None
ExceptException(r) == IF IsRaised(r) THEN None ELSE r

\* A TLS test that knows "tls" only.
VlessTlsOnly(security) == security = PyStr(Str("tls"))

\* Line 25: q("security") in ["tls", "reality"]
VlessTls(security) == security \in {PyStr(Str("tls")), PyStr(Str("reality"))}

\* Line 41: ws_host or q("sni", server)
VlessServername(ws_host, sni) == PyOr(ws_host, sni)

\* A Host header that is the server whatever the host parameter.
VlessServerAsHost(ws_host, server) == server

\* Line 57: ws_host or server
VlessWsHost(ws_host, server) == PyOr(ws_host, server)

\* Lines 19-63 of vless_to_clash: the record built from the parsed parts.
VlessProxy(name, uuid, server, port, qs) ==
    LET q(key, default) == QsGet(qs, Str(key), default)
        network == q("type", PyStr(Str("tcp")))
        tls == VlessTls(q("security", None))
        ws_host == q("host", None)
    IN  [kind |-> "proxy",
         name |-> PyStr(name), type |-> PyStr(Str("vless")),
         server |-> server, port |-> port,
         udp |-> PyBool(TRUE), uuid |-> uuid, network |-> network,
         tls |-> PyBool(tls),
         encryption |-> q("encryption", PyStr(Str("none"))),
         flow |-> IF QsHas(qs, Str("flow")) THEN q("flow", None) ELSE Absent,
         servername |-> IF tls THEN VlessServername(ws_host, q("sni", server)) ELSE Absent,
         client_fingerprint |->
             IF QsHas(qs, Str("fp")) THEN q("fp", None) ELSE Absent,
         reality_opts |->
             IF q("security", None) = PyStr(Str("reality"))
             THEN [public_key |-> q("pbk", None), short_id |-> q("sid", PyStr(<<>>))]
             ELSE Absent,
         ws_opts |->
             IF network = PyStr(Str("ws"))
             THEN [path |-> q("path", PyStr(Str("/"))),
                   Host |-> VlessWsHost(ws_host, server)]
             ELSE Absent,
         grpc_opts |->
             IF network = PyStr(Str("grpc"))
             THEN [grpc_service_name |-> q("serviceName", PyStr(<<>>))]
             ELSE Absent]

\* Lines 14-17: u.port raises ValueError for a port that is no number in
\* 0..65535.
VlessPort(name, u, port) ==
    IF IsRaised(port) THEN port
    ELSE VlessProxy(name, UrlUsername(u), UrlHostname(u), port, ParseQsl(u.query))

\* Line 13: urlparse raises ValueError for an unbalanced bracket.
VlessUrl(name, u) == IF IsRaised(u) THEN u ELSE VlessPort(name, u, UrlPort(u))

\* Lines 11-12: the tag after the first '#', percent-decoded, is the name.
VlessTag(parts) ==
    VlessUrl(IF Len(parts) = 2 THEN Unquote(parts[2]) ELSE Str("VLESS_Node"),
             UrlParse(parts[1]))

\* The try block of vless_to_clash.
VlessBody(link) == VlessTag(Split1(link, Str("#")))

vless_to_clash(link) == ExceptException(VlessBody(link))

\* A TLS test that takes any value that counts as true.
VmessTlsTruthy(tls) == Truthy(tls)

\* Line 87: vmess_data.get("tls") == "tls"
VmessTls(tls) == tls = PyStr(Str("tls"))

\* Lines 77-102 of vmess_to_clash: .get on a value that is no dict raises
\* AttributeError.
VmessProxy(vmess_data) ==
    LET get(key, default) == DictGet(vmess_data, Str(key), default)
        network == get("net", PyStr(Str("tcp")))
        tls == VmessTls(get("tls", None))
    IN  IF IsRaised(vmess_data) THEN vmess_data
        ELSE IF vmess_data.kind # "dict" THEN Raised("AttributeError")
        ELSE [kind |-> "proxy",
              name |-> get("ps", PyStr(Str("VMess_Node"))),
              type |-> PyStr(Str("vmess")),
              server |-> get("add", None), port |-> get("port", None),
              uuid |-> get("id", None), alterId |-> get("aid", None),
              cipher |-> get("scy", PyStr(Str("auto"))),
              udp |-> PyBool(TRUE), network |-> network, tls |-> PyBool(tls),
              servername |-> IF tls THEN get("sni", get("add", None)) ELSE Absent,
              ws_opts |->
                  IF network = PyStr(Str("ws"))
                  THEN [path |-> get("path", PyStr(Str("/"))),
                        Host |-> get("host", get("add", None))]
                  ELSE Absent,
              grpc_opts |->
                  IF network = PyStr(Str("grpc"))
                  THEN [grpc_service_name |-> get("path", PyStr(<<>>))]
                  ELSE Absent]

\* Line 75: json.loads of the decoded text.
VmessText(decoded_part) ==
    IF IsRaised(decoded_part) THEN decoded_part
    ELSE VmessProxy(JsonLoads(decoded_part.s))

\* Line 74: .decode('utf-8') of the decoded bytes.
VmessBytes(raw) == IF IsRaised(raw) THEN raw ELSE VmessText(Utf8Decode(raw.b, TRUE))

\* Line 74: link.split("vmess://")[1], then b64decode.
VmessPayload(pieces) ==
    IF Len(pieces) < 2 THEN Raised("IndexError") ELSE VmessBytes(B64Decode(pieces[2]))

\* The try block of vmess_to_clash.
VmessBody(link) == VmessPayload(Split(link, Str("vmess://")))

vmess_to_clash(link) == ExceptException(VmessBody(link))

\* Lines 116-126 of trojan_to_clash.
TrojanProxy(name, u, server, port) ==
    IF IsRaised(port) THEN port
    ELSE [kind |-> "proxy",
          name |-> PyStr(name), type |-> PyStr(Str("trojan")),
          server |-> server, port |-> port,
          password |-> UrlUsername(u), udp |-> PyBool(TRUE),
          sni |-> QsGet(ParseQsl(u.query), Str("sni"), server)]

\* Line 114: urlparse raises ValueError for an unbalanced bracket.
TrojanUrl(name, u) ==
    IF IsRaised(u) THEN u ELSE TrojanProxy(name, u, UrlHostname(u), UrlPort(u))

\* Lines 112-113.
TrojanTag(parts) ==
    TrojanUrl(IF Len(parts) = 2 THEN Unquote(parts[2]) ELSE Str("Trojan_Node"),
              UrlParse(parts[1]))

\* The try block of trojan_to_clash.
TrojanBody(link) == TrojanTag(Split1(link, Str("#")))

trojan_to_clash(link) == ExceptException(TrojanBody(link))

\* Lines 160-167 of ss_to_clash: int(port) raises ValueError.
SsProxy(name, method, password, server, port) ==
    IF IsRaised(port) THEN port
    ELSE [kind |-> "proxy",
          name |-> PyStr(name), type |-> PyStr(Str("ss")),
          server |-> PyStr(server), port |-> port,
          cipher |-> PyStr(method), password |-> PyStr(password)]

\* Line 159: server, port = server_port.split(":", 1)
SsServerPort(name, method, password, sp) ==
    IF Len(sp) # 2 THEN Raised("ValueError")
    ELSE SsProxy(name, method, password, sp[1], IntParse(sp[2]))

\* Line 157: password, server_port = rest.split("@", 1)
SsRest(name, method, rest) ==
    IF Len(rest) # 2 THEN Raised("ValueError")
    ELSE SsServerPort(name, method, rest[1], Split1(rest[2], Str(":")))

\* Line 156: method, rest = decoded.split(":", 1)
SsDecoded(name, decoded) ==
    IF IsRaised(decoded) THEN decoded
    ELSE IF Len(Split1(decoded.s, Str(":"))) # 2 THEN Raised("ValueError")
    ELSE SsRest(name, Split1(decoded.s, Str(":"))[1],
                Split1(Split1(decoded.s, Str(":"))[2], Str("@")))

\* Line 153: method, password = ....split(":", 1)
SsCred(name, server_port, decoded) ==
    IF IsRaised(decoded) THEN decoded
    ELSE IF Len(Split1(decoded.s, Str(":"))) # 2 THEN Raised("ValueError")
    ELSE SsServerPort(name, Split1(decoded.s, Str(":"))[1],
                      Split1(decoded.s, Str(":"))[2], Split1(server_port, Str(":")))

\* base64.urlsafe_b64decode(block + "==").decode()
SsText(raw) == IF IsRaised(raw) THEN raw ELSE Utf8Decode(raw.b, TRUE)
\* A decoding that takes the block as it comes, no padding added.
SsDecodeAsIs(block) == SsText(UrlsafeB64Decode(block))

\* Lines 153 and 155: the block with "==" appended, decoded.
SsDecode(block) == SsText(UrlsafeB64Decode(block \o Str("==")))

\* Lines 151-157: the two layouts.
SsLayout(name, uri) ==
    IF Contains(uri, Str("@"))
    THEN SsCred(name, Split1(uri, Str("@"))[2], SsDecode(Split1(uri, Str("@"))[1]))
    ELSE SsDecoded(name, SsDecode(uri))

\* Lines 144-148: the optional tag.
SsTag(uri) ==
    IF Contains(uri, Str("#"))
    THEN SsLayout(Unquote(Split1(uri, Str("#"))[2]), Split1(uri, Str("#"))[1])
    ELSE SsLayout(Str("SS_Node"), uri)

\* The try block of ss_to_clash.
SsBody(link) == IF StartsWith(link, Str("ss://")) THEN SsTag(From(link, 6)) ELSE None

ss_to_clash(link) == ExceptException(SsBody(link))

\* PARSERS.get(protocol)(link); None when the table has no such protocol.
PARSERS(protocol, link) ==
    IF protocol = Str("vless") THEN vless_to_clash(link)
    ELSE IF protocol = Str("vmess") THEN vmess_to_clash(link)
    ELSE IF protocol = Str("trojan") THEN trojan_to_clash(link)
    ELSE IF protocol = Str("ss") THEN ss_to_clash(link)
    ELSE None

\* link.split("://")[0].lower()
Protocol(link) == Lower(Split(link, Str("://"))[1])

\* except IndexError: return None
ExceptIndexError(r) == IF IsRaised(r) /\ r.exc = "IndexError" THEN None ELSE r

\* link_to_clash: a value that is no string gives None; only IndexError is
\* caught here.
link_to_clash(v) ==
    IF ~IsStr(v) THEN None
    ELSE ExceptIndexError(PARSERS(Protocol(v.s), v.s))

-----------------------------------------------------------------------------
(* The links handed to the decoders.                                       *)

UpperCh(c) == IF c \in 97..122 THEN c - 32 ELSE c
Upper(s) == [i \in 1..Len(s) |-> UpperCh(s[i])]
\* The first letter in upper case, as in "Vmess".
Title(s) == [i \in 1..Len(s) |-> IF i = 1 THEN UpperCh(s[i]) ELSE s[i]]

SchemeSep == Str("://")
SupportedSchemes == {Str("vless"), Str("vmess"), Str("trojan"), Str("ss")}

\* A scheme name written in lower, upper and mixed case.
Cases(scheme) == {scheme, Upper(scheme), Title(scheme)}

\* base64 of a text, with and without its '=' padding.
Encoded(t) == B64Encode(Utf8Encode(t))
Unpadded(t) == SelectSeq(Encoded(t), LAMBDA c : c # 61)

\* user@host:port?query#fragment bodies of vless and trojan links: the
\* well-formed ones, and ones without host, without port, with a port that
\* is no number or out of range, with an empty fragment.
GoodAuthorities == {Str("u@h.x:443"), Str("9f@H.x:65535")}
BadAuthorities ==
    {Str("u@h.x"), Str("u@:443"), Str("h.x:443"), Str("u@h.x:0"), Str("u@h.x:65536"),
     Str("u@h.x:x"), Str("u@[::1"), Str("u@[::1]:443"), Str("")}
GoodTails ==
    {Str(""), Str("#MyNode"), Str("?type=ws&security=tls&host=e.x&path=%2Fapi#My%20Node"),
     Str("?security=reality&pbk=K&sni=s.x&fp=chrome&flow=xtls#N"),
     Str("?type=grpc&serviceName=g&sni=s.x")}
BadTails == {Str("#"), Str("?sni=s.x#")}
GoodUrlBodies == {a \o t : a \in GoodAuthorities, t \in GoodTails}
BadUrlBodies ==
    {a \o t : a \in BadAuthorities, t \in GoodTails \cup BadTails}
        \cup {a \o t : a \in GoodAuthorities, t \in BadTails}

\* ss bodies in both layouts, padded or not: the well-formed ones, and ones
\* with bad credentials, no port, a port that is no number or out of range,
\* no host, an empty fragment.
SsCreds == {Str("aes-256-gcm:password"), Str("rc4:p:w")}
SsHostPorts == {Str("1.2.3.4:8388"), Str("h.x:1")}
SsBadHostPorts == {Str("h.x"), Str("h.x:99999"), Str("h.x:-1"), Str("h.x:x"), Str(":1")}
SsBadCreds == {Str("nocolon")}
SsTags == {Str(""), Str("#Test")}
SsLayouts(cred, hp) ==
    {Encoded(cred) \o Str("@") \o hp, Unpadded(cred) \o Str("@") \o hp,
     Encoded(cred \o Str("@") \o hp), Unpadded(cred \o Str("@") \o hp)}
GoodSsBodies ==
    UNION {{b \o t : b \in SsLayouts(c, hp), t \in SsTags} : c \in SsCreds, hp \in SsHostPorts}
BadSsBodies ==
    UNION {{b \o t : b \in SsLayouts(c, hp), t \in SsTags \cup {Str("#")}} :
              c \in SsCreds, hp \in SsBadHostPorts}
    \cup UNION {SsLayouts(c, hp) : c \in SsBadCreds, hp \in SsHostPorts}
    \cup {b \o Str("#") : b \in SsLayouts(Str("rc4:pw"), Str("h.x:1"))}
    \cup {Str("aes-256-gcm:password@1.2.3.4:8388"), Str("!!!")}

\* vmess payloads: well-formed node descriptions, then JSON that lacks a
\* field, gives the port as text, is no object, or is no JSON at all.
GoodVmessJson ==
    {Str("{\"ps\":\"n\",\"add\":\"h.x\",\"port\":443,\"id\":\"u\",\"aid\":0}"),
     Str("{\"add\":\"h.x\",\"port\":8080,\"id\":\"u\",\"net\":\"ws\",\"tls\":\"tls\",\"host\":\"e.x\"}"),
     Str("{\"add\":\"h.x\",\"port\":1,\"net\":\"grpc\",\"path\":\"g\",\"tls\":\"tls\",\"sni\":\"s.x\"}")}
BadVmessJson ==
    {Str("{}"), Str("{\"ps\":\"\",\"add\":\"\",\"port\":0}"),
     Str("{\"ps\":\"n\",\"add\":\"h.x\",\"port\":\"443\"}"),
     Str("{\"ps\":null,\"add\":\"h.x\",\"port\":70000,\"tls\":true}"),
     Str("[]"), Str("7"), Str("{\"add\":\"h.x\""), Str("")}
GoodVmessBodies == {Encoded(j) : j \in GoodVmessJson}
BadVmessBodies ==
    {Encoded(j) : j \in BadVmessJson} \cup GoodVmessJson
        \cup {Upto(Encoded(j), Len(Encoded(j)) - 3) : j \in GoodVmessJson}
        \cup {B64Encode(<<255, 254, 123, 125>>)}

\* The bodies that make a well-formed link of a scheme.
GoodBodies(scheme) ==
    IF scheme = Str("ss") THEN GoodSsBodies
    ELSE IF scheme = Str("vmess") THEN GoodVmessBodies
    ELSE GoodUrlBodies
BadBodies(scheme) ==
    IF scheme = Str("ss") THEN BadSsBodies
    ELSE IF scheme = Str("vmess") THEN BadVmessBodies
    ELSE BadUrlBodies

\* Well-formed links of the supported schemes, the scheme in any case.
WellFormedLinks ==
    UNION {{c \o SchemeSep \o b : c \in Cases(scheme), b \in GoodBodies(scheme)} :
              scheme \in SupportedSchemes}
\* Links of the supported schemes that are malformed.
MalformedLinks ==
    UNION {{c \o SchemeSep \o b : c \in {scheme, Upper(scheme)}, b \in BadBodies(scheme)} :
              scheme \in SupportedSchemes}
\* Links of other schemes, and strings without "://".
UnsupportedSchemes == {Str("http"), Str("socks5"), Str("vles"), Str("ssr"), Str("")}
UnsupportedLinks ==
    {c \o SchemeSep \o b : c \in UnsupportedSchemes,
                           b \in {Str("u@h.x:443#N"), Encoded(Str("rc4:pw@h.x:1")), Str("")}}
NoSepStrings ==
    SupportedSchemes \cup {Upper(x) : x \in SupportedSchemes}
        \cup {Str(""), Str("foo"), Str("vless:/u@h.x:443"), Str("trojan:u@h.x:443#N"),
              Str("ss:") \o Encoded(Str("rc4:pw@h.x:1")), Str("h.x:443"), Str("vless//u@h.x:1")}

Links == WellFormedLinks \cup MalformedLinks \cup UnsupportedLinks \cup NoSepStrings

\* What a caller may hand to link_to_clash: a string or another value.
LinkInputs == {PyStr(l) : l \in Links} \cup {None, PyInt(0)}

-----------------------------------------------------------------------------
(* Decoding one link: link_to_clash or one of the decoders is called on    *)
(* inLink and result holds what it returned or raised.                     *)

InitLink ==
    /\ pc = "start"
    /\ inLink \in LinkInputs
    /\ result = None
    /\ content = <<>>
    /\ links = <<>> /\ idx = 0 /\ proxies = <<>>
    /\ files = <<>> /\ args = None /\ loaded = None /\ data = None /\ calls = 0
    /\ stdio = <<>>
    /\ NoWindow

Frame == UNCHANGED <<linkVars, subVars, convertVars, mergeVars, mainVars, guiVars>>

CallLinkToClash ==
    /\ pc = "start"
    /\ result' = link_to_clash(inLink)
    /\ pc' = "link_to_clash"
    /\ Frame

CallVless ==
    /\ pc = "start" /\ IsStr(inLink)
    /\ result' = vless_to_clash(inLink.s)
    /\ pc' = "vless_to_clash"
    /\ Frame

CallVmess ==
    /\ pc = "start" /\ IsStr(inLink)
    /\ result' = vmess_to_clash(inLink.s)
    /\ pc' = "vmess_to_clash"
    /\ Frame

CallTrojan ==
    /\ pc = "start" /\ IsStr(inLink)
    /\ result' = trojan_to_clash(inLink.s)
    /\ pc' = "trojan_to_clash"
    /\ Frame

CallSs ==
    /\ pc = "start" /\ IsStr(inLink)
    /\ result' = ss_to_clash(inLink.s)
    /\ pc' = "ss_to_clash"
    /\ Frame

NextLink == CallLinkToClash \/ CallVless \/ CallVmess \/ CallTrojan \/ CallSs

SpecLink == InitLink /\ [][NextLink]_vars

-----------------------------------------------------------------------------
(* Claims about link_to_clash and the decoders, checked under SpecLink.    *)

\* The scheme of a link: the text before the first "://", in lower case.
SchemeOf(l) == Lower(Split(l, SchemeSep)[1])
Called(f) == pc = f /\ IsStr(inLink)
DecoderNames == {"vless_to_clash", "vmess_to_clash", "trojan_to_clash", "ss_to_clash"}
IsProxy(r) == r.kind = "proxy"

\* C1: for every string whose scheme is not vless, vmess, trojan or ss, and
\* for every string without "://" (the bare words "vless", "vmess",
\* "trojan", "ss" included), link_to_clash returns None.
C1_UnsupportedOrNoSeparatorIsNone ==
    (Called("link_to_clash")
        /\ (~Contains(inLink.s, SchemeSep) \/ SchemeOf(inLink.s) \notin SupportedSchemes))
    => result = None

\* C2: every record a decoder returns has a non-empty name, a non-empty
\* server, an integer port in 1..65535 and a type among vless, vmess,
\* trojan, ss.
C2_RecordInvariant ==
    (pc \in DecoderNames /\ IsProxy(result))
    => /\ IsStr(result.name) /\ result.name.s # <<>>
       /\ IsStr(result.server) /\ result.server.s # <<>>
       /\ result.port.kind = "int" /\ result.port.n \in 1..65535
       /\ result.type \in {PyStr(t) : t \in SupportedSchemes}

\* C3: link_to_clash and each decoder end with a record or with None; no
\* exception raised while parsing reaches the caller.
C3_NoExceptionPropagates ==
    pc # "start" => (IsProxy(result) \/ result = None)

\* A decoder whose try block raised has returned None.
C3_Witness ==
    \/ Called("vless_to_clash") /\ IsRaised(VlessBody(inLink.s)) /\ result = None
    \/ Called("ss_to_clash") /\ IsRaised(SsBody(inLink.s)) /\ result = None

\* C4: for a well-formed link of a supported scheme, the scheme written in
\* any case, link_to_clash returns a record whose type is the scheme in
\* lower case.
C4_SchemeCaseInsensitive ==
    (Called("link_to_clash") /\ inLink.s \in WellFormedLinks)
    => (IsProxy(result) /\ result.type = PyStr(SchemeOf(inLink.s)))

-----------------------------------------------------------------------------
(* convert_subscription.py: parse_subscription.  A list of lines is a      *)
(* sequence of texts; the call returns it as a Python list of strings.     *)

\* [line.strip() for line in text.splitlines() if line.strip()]
TrimmedLines(text) ==
    SelectSeq(Map(SplitLines(text), Strip), LAMBDA line : line # <<>>)

\* The heuristic that takes every line for a URI.
AllHaveDelimiter(lines) ==
    \A i \in 1..Len(lines) : Contains(lines[i], SchemeSep)

\* any("://" in line for line in lines)
AnyHasDelimiter(lines) ==
    \E i \in 1..Len(lines) : Contains(lines[i], SchemeSep)

\* Lines 110-116 and 122: the decoded lines are returned when one of them
\* has the delimiter, the lines of the input otherwise.
SubHeuristic(stripped, lines) ==
    IF AnyHasDelimiter(lines) THEN lines ELSE TrimmedLines(stripped)

\* Line 107: b64decode raises for a quad that is not complete and for text
\* that is not ASCII (lines 117-122 then fall back to the input); decode
\* with errors="replace" never raises.
SubDecoded(stripped, raw) ==
    IF IsRaised(raw) THEN TrimmedLines(stripped)
    ELSE SubHeuristic(stripped, TrimmedLines(Utf8Decode(raw.b, FALSE).s))

\* A subscription decoder that takes every payload for plain text.
SubPlain(stripped) == TrimmedLines(stripped)

\* Lines 100-123, content being stripped already.
SubStripped(stripped) ==
    IF stripped = <<>> THEN <<>>
    ELSE SubDecoded(stripped, B64Decode(RemoveWhitespace(stripped)))

parse_subscription(c) == PyList(Map(SubStripped(Strip(c)), PyStr))

-----------------------------------------------------------------------------
(* The payloads handed to parse_subscription.                              *)

NL == Str("\n")
\* URIs as a subscription lists them: one has a space inside, one a
\* character outside ASCII.
SubUris ==
    {Str("vless://u@h.x:443#MyNode"),
     Str("ss://") \o Encoded(Str("rc4:pw")) \o Str("@1.2.3.4:8388"),
     Str("trojan://p@h.x:443#a b"),
     Str("http://h.x/caf") \o <<233>>}
UriLists ==
    {<<u>> : u \in SubUris} \cup {<<u, v>> : u, v \in SubUris}
        \cup {<<Str("a://b"), Str("c://d"), Str("a://b")>>}

\* The base64 blob of a list of lines.
Blob(l) == Encoded(Join(l, NL))

\* A blob as servers send it: bare, wrapped in whitespace, broken into two
\* lines, or with its padding cut off.
BlobForms(b) ==
    {b, Str(" ") \o b \o Str("\r\n"),
     Upto(b, 10) \o Str("\r\n") \o From(b, 11),
     SelectSeq(b, LAMBDA c : c # 61)}

\* The same list as plain text: one URI per line, or with blank lines,
\* carriage returns and spaces around the URIs.
PlainForms(l) ==
    {Join(l, NL), Str("\n  ") \o Join(l, Str(" \r\n\n\t")) \o Str("  \n")}

\* Payloads that are no URI list: empty, blank, decodable text without a
\* URI, decodable text where only some lines are URIs, bytes that are no
\* UTF-8, and text outside ASCII.
OtherContents ==
    {Str(""), Str(" \n\t "), Str("hello"), Str("abcd"),
     Blob(<<Str("hello"), Str("world")>>),
     Blob(<<Str("# my nodes"), Str("vless://u@h.x:443#N"), Str(""), Str("  x  ")>>),
     Blob(<<Str("  a://b  "), Str(""), Str("c://d\r")>>),
     B64Encode(<<255, 58, 47, 47, 120>>),
     B64Encode(<<255, 254>>),
     <<33410, 28857>>,
     Str("a://b\n") \o <<33410, 28857>>}

Contents ==
    UNION {BlobForms(Blob(l)) \cup PlainForms(l) : l \in UriLists} \cup OtherContents

InitSub ==
    /\ pc = "start"
    /\ content \in Contents
    /\ result = None
    /\ inLink = None
    /\ links = <<>> /\ idx = 0 /\ proxies = <<>>
    /\ files = <<>> /\ args = None /\ loaded = None /\ data = None /\ calls = 0
    /\ stdio = <<>>
    /\ NoWindow

CallParseSubscription ==
    /\ pc = "start"
    /\ result' = parse_subscription(content)
    /\ pc' = "parse_subscription"
    /\ Frame

NextSub == CallParseSubscription

SpecSub == InitSub /\ [][NextSub]_vars

-----------------------------------------------------------------------------
(* Claims about parse_subscription, checked under SpecSub.                 *)

Texts(list) == [i \in 1..Len(list.items) |-> list.items[i].s]
Parsed == pc = "parse_subscription"

\* The lines of the base64-decoded payload, when it decodes.
DecodedLines(c) ==
    TrimmedLines(Utf8Decode(B64Decode(RemoveWhitespace(c)).b, FALSE).s)
Decodes(c) == ~IsRaised(B64Decode(RemoveWhitespace(c)))

C7_RoundTrip ==
    \A l \in UriLists : (Parsed /\ content = Blob(l)) => Texts(result) = l

\* A blob of two different URIs has been parsed back.
C7_Witness ==
    \E l \in UriLists :
        /\ Len(l) = 2 /\ l[1] # l[2]
        /\ Parsed /\ content = Blob(l) /\ Texts(result) = l

-----------------------------------------------------------------------------
(* convert_links_to_proxies: one action per iteration of its loop.         *)

\* A loop body that keeps what link_to_clash returned, None included.
AppendedAlways(ps, proxy) == Append(ps, proxy)

\* Lines 135-136: if proxy is not None: proxies.append(proxy)
Appended(ps, proxy) == IF proxy # None THEN Append(ps, proxy) ELSE ps

\* The links of a batch: two that decode, one whose scheme is in upper
\* case, one of an unsupported scheme, one whose payload does not decode.
BatchLinks ==
    {PyStr(Str("vless://u@h.x:443#MyNode")),
     PyStr(Str("ss://") \o Encoded(Str("rc4:pw")) \o Str("@1.2.3.4:8388#Test")),
     PyStr(Str("SS://") \o Encoded(Str("rc4:pw")) \o Str("@1.2.3.4:8388#Test")),
     PyStr(Str("http://h.x:443#N")),
     PyStr(Str("vmess://!!!"))}

MaxLinks == 3
Batches == UNION {[1..n -> BatchLinks] : n \in 0..MaxLinks}

InitConvert ==
    /\ pc = "start"
    /\ links \in Batches
    /\ idx = 0 /\ proxies = <<>>
    /\ result = None
    /\ inLink = None /\ content = <<>>
    /\ files = <<>> /\ args = None /\ loaded = None /\ data = None /\ calls = 0
    /\ stdio = <<>>
    /\ NoWindow

\* Line 132.
ConvertBegin ==
    /\ pc = "start"
    /\ proxies' = <<>> /\ idx' = 0
    /\ pc' = "loop"
    /\ UNCHANGED <<result, links, linkVars, subVars, mergeVars, mainVars, guiVars>>

\* Lines 133-136: one link; an exception of link_to_clash would leave the
\* function.
ConvertStep ==
    /\ pc = "loop" /\ idx < Len(links)
    /\ result' = link_to_clash(links[idx + 1])
    /\ idx' = idx + 1
    /\ proxies' = IF IsRaised(result') THEN proxies ELSE Appended(proxies, result')
    /\ pc' = IF IsRaised(result') THEN "raised" ELSE "loop"
    /\ UNCHANGED <<links, linkVars, subVars, mergeVars, mainVars, guiVars>>

\* Line 137.
ConvertReturn ==
    /\ pc = "loop" /\ idx = Len(links)
    /\ result' = PyList(proxies)
    /\ pc' = "returned"
    /\ UNCHANGED <<links, idx, proxies, linkVars, subVars, mergeVars, mainVars, guiVars>>

NextConvert == ConvertBegin \/ ConvertStep \/ ConvertReturn

SpecConvert == InitConvert /\ [][NextConvert]_vars

\* The records of the links that link_to_clash decodes, in order.
Decoded(ls) ==
    SelectSeq([i \in 1..Len(ls) |-> link_to_clash(ls[i])], LAMBDA r : IsProxy(r))

\* C5: convert_links_to_proxies returns, in input order, exactly the
\* records of the links link_to_clash decodes; a link that fails is skipped
\* and the links after it are still processed.
C5_FilterInOrder ==
    /\ pc # "raised"
    /\ pc = "returned" => (idx = Len(links) /\ result = PyList(Decoded(links)))

\* A batch has been converted where a link that decodes follows one that
\* does not.
C5_Witness ==
    /\ pc = "returned"
    /\ \E i, j \in 1..Len(links) :
          i < j /\ link_to_clash(links[i]) = None /\ IsProxy(link_to_clash(links[j]))
    /\ result.items # <<>>

-----------------------------------------------------------------------------
(* convert_subscription.py: update_yaml.  A file holds the document its    *)
(* YAML text denotes: a mapping is a PyDict of <<key, value>> items in     *)
(* order, a sequence a PyList, a scalar a PyStr, PyInt, PyBool or None;    *)
(* an empty file denotes None.                                             *)

\* The keys and words update_yaml uses.
KeyType == Str("type")
KeyProxies == Str("proxies")
KeyProxyGroups == Str("proxy-groups")
UrlTest == Str("url-test")
Fallback == Str("fallback")
LoadBalance == Str("load-balance")
Select == Str("select")
MergedSuffix == Str("_merged")
YamlExt == Str(".yaml")
Dot == Str(".")
Slash == Str("/")
Minus == Str("-")
NoneText == Str("None")
TrueText == Str("True")
FalseText == Str("False")

\* An assignment that leaves the mapping with the one key only.
DictOnly(d, key, v) == PyDict(<<<<key, v>>>>)

\* d[key] = v: an existing key keeps its place, a new one goes last.
DictSet(d, key, v) ==
    IF DictHas(d, key)
    THEN PyDict([k \in 1..Len(d.items) |->
                    IF d.items[k][1] = key THEN <<key, v>> ELSE d.items[k]])
    ELSE PyDict(Append(d.items, <<key, v>>))

\* str(n) for an integer.
RECURSIVE Decimal(_)
Decimal(n) ==
    IF n < 0 THEN Minus \o Decimal(0 - n)
    ELSE IF n < 10 THEN <<48 + n>>
    ELSE Decimal(n \div 10) \o <<48 + (n % 10)>>

\* str(v) for a scalar.
PyStrOf(v) ==
    CASE v.kind = "str" -> v.s
      [] v.kind = "None" -> NoneText
      [] v.kind = "bool" -> IF v.b THEN TrueText ELSE FalseText
      [] v.kind = "int" -> Decimal(v.n)

\* a == b: a bool is the integer 0 or 1.
PyNum(v) == IF v.kind = "bool" THEN (IF v.b THEN 1 ELSE 0) ELSE v.n
PyEq(a, b) ==
    IF a.kind \in {"int", "bool"} /\ b.kind \in {"int", "bool"}
    THEN PyNum(a) = PyNum(b)
    ELSE a = b
\* x in list
PyIn(x, items) == \E k \in 1..Len(items) : PyEq(items[k], x)

\* os.path.splitext(p): the extension starts at the last dot of the last
\* component, leading dots of that component aside.
SplitExt(p) ==
    IF RFind(p, Dot) > RFind(p, Slash)
       /\ \E k \in (RFind(p, Slash) + 1)..(RFind(p, Dot) - 1) : p[k] # 46
    THEN <<Upto(p, RFind(p, Dot) - 1), From(p, RFind(p, Dot))>>
    ELSE <<p, <<>> >>

\* An output path that keeps the extension as it is, even when empty.
OutputPathAsIs(config_path, output_path) ==
    IF Truthy(output_path) THEN output_path.s
    ELSE SplitExt(config_path)[1] \o MergedSuffix \o SplitExt(config_path)[2]

\* Lines 214-216: the path the merged document goes to.
OutputPath(config_path, output_path) ==
    IF Truthy(output_path) THEN output_path.s
    ELSE SplitExt(config_path)[1] \o MergedSuffix
            \o (IF SplitExt(config_path)[2] # <<>> THEN SplitExt(config_path)[2]
                ELSE YamlExt)

\* open(path, "w"): the file exists and is empty.
OpenForWriting(fs, path) ==
    [q \in DOMAIN fs \cup {path} |-> IF q = path THEN None ELSE fs[q]]
\* yaml.dump(data, f)
YamlDump(fs, path, doc) == [fs EXCEPT ![path] = doc]
\* A Python object that YAML has no representation for.
PyObject == [kind |-> "object"]

\* Whether yaml.dump can represent the value: scalars, and sequences,
\* mappings and records of representable values; for any other object the
\* representer raises.
RECURSIVE Representable(_)
Representable(v) ==
    IF "kind" \notin DOMAIN v
    THEN \A f \in DOMAIN v : Representable(v[f])
    ELSE CASE v.kind = "object" -> FALSE
           [] v.kind = "list" -> \A k \in 1..Len(v.items) : Representable(v.items[k])
           [] v.kind = "dict" -> \A k \in 1..Len(v.items) : Representable(v.items[k][2])
           [] v.kind = "proxy" -> \A f \in DOMAIN v \ {"kind"} : Representable(v[f])
           [] OTHER -> TRUE

\* yaml.load(f) or {}
YamlLoad(fs, path) == IF Truthy(fs[path]) THEN fs[path] ELSE PyDict(<<>>)

\* A group loop that appends without looking.
AddNameAlways(group_proxies, name) == Append(group_proxies, name)

\* Lines 210-211: if name not in group_proxies: group_proxies.append(name)
AddName(group_proxies, name) ==
    IF PyIn(name, group_proxies) THEN group_proxies ELSE Append(group_proxies, name)

\* Lines 209-211.
RECURSIVE AddNames(_, _)
AddNames(group_proxies, names) ==
    IF names = <<>> THEN group_proxies
    ELSE AddNames(AddName(group_proxies, names[1]), Tail(names))

\* A group type taken as written, its case kept.
GroupTypeAsWritten(group) == PyStrOf(DictGet(group, KeyType, PyStr(<<>>)))

\* Line 196: str(group.get("type", "")).lower()
GroupType(group) == Lower(PyStrOf(DictGet(group, KeyType, PyStr(<<>>))))

\* Lines 201-202.
IsSpeedGroup(group_type) ==
    group_type \in {UrlTest, Fallback, LoadBalance}
IsManualGroup(group_type) == group_type = Select

\* Lines 203-207: [p["name"] for p in proxies] for a group that qualifies.
NamesToAdd(group_type, ps, add_to_speedtest, add_to_manual) ==
    IF add_to_speedtest /\ IsSpeedGroup(group_type) THEN [k \in 1..Len(ps) |-> ps[k].name]
    ELSE IF add_to_manual /\ IsManualGroup(group_type)
         THEN [k \in 1..Len(ps) |-> ps[k].name]
    ELSE <<>>

\* A group loop that starts a missing or ill-typed proxies from an empty
\* list instead of passing the group over.
UpdateGroupEager(group, ps, add_to_speedtest, add_to_manual) ==
    IF group.kind # "dict" THEN group
    ELSE DictSet(group, KeyProxies,
                 PyList(AddNames(IF DictGet(group, KeyProxies, None).kind = "list"
                                 THEN DictGet(group, KeyProxies, None).items
                                 ELSE <<>>,
                                 NamesToAdd(GroupType(group), ps,
                                            add_to_speedtest, add_to_manual))))

\* Lines 194-211 for one group: a group that is no mapping, or whose
\* proxies is no list, is passed over.
UpdateGroup(group, ps, add_to_speedtest, add_to_manual) ==
    IF group.kind # "dict" THEN group
    ELSE IF DictGet(group, KeyProxies, None).kind # "list" THEN group
    ELSE DictSet(group, KeyProxies,
                 PyList(AddNames(DictGet(group, KeyProxies, None).items,
                                 NamesToAdd(GroupType(group), ps,
                                            add_to_speedtest, add_to_manual))))

\* type(v).__name__
TypeName(v) ==
    CASE v.kind = "str" -> Str("str")
      [] v.kind = "None" -> Str("NoneType")
      [] v.kind = "bool" -> Str("bool")
      [] v.kind = "int" -> Str("int")
      [] v.kind = "float" -> Str("float")
      [] v.kind = "list" -> Str("list")
      [] v.kind = "dict" -> Str("dict")

\* Lines 178-180 and 190-192: TypeError(f"Expected '{key}' to be a list,
\* got {type(v).__name__}")
StructureError(key, v) ==
    [kind |-> "raise", exc |-> "TypeError",
     message |-> Str("Expected '") \o key \o Str("' to be a list, got ") \o TypeName(v)]

\* What a call of update_yaml leaves: its result (the output path, or the
\* exception it raised), the files, the document it loaded and the document
\* after its changes.
Outcome(r, fs, data0, doc) == [result |-> r, files |-> fs, loaded |-> data0, data |-> doc]

\* An exception that leaves after the output path was opened for writing.
RaisedAfterOpen(e, fs, config_path, output_path, data0) ==
    Outcome(e, OpenForWriting(fs, OutputPath(config_path, output_path)), data0, None)

\* Lines 178 and 190: the exception leaves update_yaml where it is raised,
\* before line 220 opens the output path.
RaisedBeforeOpen(e, fs, config_path, output_path, data0) ==
    Outcome(e, fs, data0, None)

\* Lines 214-223: the output path is opened for writing, the document is
\* dumped to it and the path is returned.  The representer goes through
\* the whole document before any text is emitted: when it raises, the file
\* opened at line 220 is left empty.
MergeWrite(fs, config_path, output_path, data0, doc) ==
    IF Representable(doc)
    THEN Outcome(PyStr(OutputPath(config_path, output_path)),
                 YamlDump(OpenForWriting(fs, OutputPath(config_path, output_path)),
                          OutputPath(config_path, output_path), doc),
                 data0, doc)
    ELSE Outcome(Raised("RepresenterError"),
                 OpenForWriting(fs, OutputPath(config_path, output_path)),
                 data0, doc)

\* Lines 187-211: with a flag set, proxy-groups must be a list and every
\* group is gone through.
MergeGroups(fs, config_path, ps, add_to_speedtest, add_to_manual, output_path, data0, doc) ==
    IF ~(add_to_speedtest \/ add_to_manual)
    THEN MergeWrite(fs, config_path, output_path, data0, doc)
    ELSE IF DictGet(doc, KeyProxyGroups, PyList(<<>>)).kind # "list"
    THEN RaisedBeforeOpen(StructureError(KeyProxyGroups,
                                         DictGet(doc, KeyProxyGroups, PyList(<<>>))),
                          fs, config_path, output_path, data0)
    ELSE IF ~DictHas(doc, KeyProxyGroups)
    THEN MergeWrite(fs, config_path, output_path, data0, doc)
    ELSE MergeWrite(fs, config_path, output_path, data0,
             DictSet(doc, KeyProxyGroups,
                 PyList([k \in 1..Len(DictGet(doc, KeyProxyGroups, None).items) |->
                            UpdateGroup(DictGet(doc, KeyProxyGroups, None).items[k],
                                        ps, add_to_speedtest, add_to_manual)])))

\* A merge that puts the new records first.
ExtendedInFront(section, ps) == ps \o section

\* Lines 183-184: for p in proxies: proxies_section.append(p)
Extended(section, ps) == section \o ps

\* Lines 173-184: the proxies section is created when absent or null, must
\* be a list, and receives the new records.
MergeProxies(fs, config_path, ps, add_to_speedtest, add_to_manual, output_path, data0) ==
    IF data0.kind # "dict" THEN Outcome(Raised("AttributeError"), fs, data0, None)
    ELSE IF DictGet(data0, KeyProxies, None) = None
    THEN MergeGroups(fs, config_path, ps, add_to_speedtest, add_to_manual, output_path,
                     data0, DictSet(data0, KeyProxies, PyList(Extended(<<>>, ps))))
    ELSE IF DictGet(data0, KeyProxies, None).kind # "list"
    THEN RaisedBeforeOpen(StructureError(KeyProxies, DictGet(data0, KeyProxies, None)),
                          fs, config_path, output_path, data0)
    ELSE MergeGroups(fs, config_path, ps, add_to_speedtest, add_to_manual, output_path,
                     data0,
                     DictSet(data0, KeyProxies,
                             PyList(Extended(DictGet(data0, KeyProxies, None).items, ps))))

\* update_yaml: lines 168-170 open and load the configuration.
update_yaml(fs, config_path, ps, add_to_speedtest, add_to_manual, output_path) ==
    IF config_path \notin DOMAIN fs
    THEN Outcome(Raised("FileNotFoundError"), fs, None, None)
    ELSE MergeProxies(fs, config_path, ps, add_to_speedtest, add_to_manual, output_path,
                      YamlLoad(fs, config_path))

-----------------------------------------------------------------------------
(* The configurations update_yaml is run on and the records it is given.   *)

Entry(key, v) == <<Str(key), v>>
NameList(names) == PyList([k \in 1..Len(names) |-> PyStr(Str(names[k]))])
Group(name, type, members) ==
    PyDict(<<Entry("name", PyStr(Str(name))), Entry("type", PyStr(Str(type))),
             Entry("proxies", members)>>)
OldProxy ==
    PyDict(<<Entry("name", PyStr(Str("old"))), Entry("type", PyStr(Str("ss"))),
             Entry("server", PyStr(Str("o.x"))), Entry("port", PyInt(1))>>)
Rules == PyList(<<PyStr(Str("MATCH,manual"))>>)

\* A configuration as users have it: one group of each type, one written
\* "Select", one of a type that takes no part.
TypicalConfig ==
    PyDict(<<Entry("port", PyInt(7890)),
             Entry("proxies", PyList(<<OldProxy>>)),
             Entry("proxy-groups",
                   PyList(<<Group("auto", "url-test", NameList(<<"old">>)),
                            Group("manual", "select", NameList(<<"auto", "old">>)),
                            Group("fb", "fallback", NameList(<<>>)),
                            Group("lb", "load-balance", NameList(<<"old", "old">>)),
                            Group("S", "Select", NameList(<<"DIRECT">>)),
                            Group("chain", "relay", NameList(<<"old">>))>>)),
             Entry("rules", Rules)>>)

\* A configuration with a null proxies key and with groups that lack a
\* field, hold a value of the wrong kind, or have the name N already.
OddConfig ==
    PyDict(<<Entry("proxy-groups",
                   PyList(<<PyDict(<<Entry("name", PyStr(Str("np"))),
                                     Entry("type", PyStr(Str("select")))>>),
                            Group("bad", "url-test", PyStr(Str("old"))),
                            PyStr(Str("stray")),
                            PyDict(<<Entry("name", PyStr(Str("nt"))),
                                     Entry("proxies", NameList(<<"old">>))>>),
                            Group("has", "select", NameList(<<"N", "DIRECT">>)),
                            Group("U", "URL-TEST", NameList(<<"n">>))>>)),
             Entry("proxies", None)>>)

\* Path and contents of the configuration file at the start; t.yaml has a
\* group whose proxies key is left without a value.
Configs ==
    {<<Str("c.yaml"), TypicalConfig>>,
     <<Str("conf.d/odd"), OddConfig>>,
     <<Str(".clash"), None>>,
     <<Str("bare.yml"), PyDict(<<Entry("port", PyInt(7890))>>)>>,
     <<Str("p.yaml"), PyDict(<<Entry("proxies", PyDict(<<Entry("a", PyInt(1))>>))>>)>>,
     <<Str("g.yaml"), PyDict(<<Entry("proxies", PyList(<<>>)),
                               Entry("proxy-groups", PyDict(<<Entry("x", PyInt(1))>>))>>)>>,
     <<Str("s.yaml"), PyDict(<<Entry("proxies", PyList(<<OldProxy>>)),
                               Entry("proxy-groups", PyStr(Str("auto")))>>)>>,
     <<Str("n.yaml"), PyDict(<<Entry("proxies", PyInt(0)),
                               Entry("proxy-groups", None)>>)>>,
     <<Str("t.yaml"),
       PyDict(<<Entry("proxies", PyList(<<OldProxy>>)),
                Entry("proxy-groups",
                      PyList(<<PyDict(<<Entry("name", PyStr(Str("auto"))),
                                        Entry("type", PyStr(Str("url-test"))),
                                        Entry("proxies", None)>>),
                               Group("manual", "select",
                                     NameList(<<"DIRECT", "auto", "old">>))>>)),
                Entry("rules", Rules)>>)>>,
     <<Str("l.yaml"), PyList(<<OldProxy>>)>>}

\* Records as ss_to_clash returns them: two named N, one M, one n.
ProxyN == SsProxy(Str("N"), Str("rc4"), Str("pw"), Str("h.x"), PyInt(1))
ProxyN2 == SsProxy(Str("N"), Str("rc4"), Str("pw"), Str("2.x"), PyInt(2))
ProxyM == SsProxy(Str("M"), Str("rc4"), Str("pw"), Str("m.x"), PyInt(3))
ProxyLowerN == SsProxy(Str("n"), Str("rc4"), Str("pw"), Str("n.x"), PyInt(4))
\* A record a caller built with a value that is no YAML data.
ProxyOpaque == [ProxyM EXCEPT !.password = PyObject]
NewProxyLists ==
    {<<ProxyN>>, <<ProxyN, ProxyN2>>, <<ProxyM, ProxyLowerN>>, <<ProxyN, ProxyOpaque>>}

\* output_path: not given, or a path of its own.
OutputPaths == {None, PyStr(Str("out.yaml"))}

MaxCalls == 2

InitMerge ==
    /\ pc = "start"
    /\ \E c \in Configs : files = [q \in {c[1]} |-> c[2]]
    /\ args = None /\ loaded = None /\ data = None /\ calls = 0
    /\ result = None
    /\ inLink = None /\ content = <<>>
    /\ links = <<>> /\ idx = 0 /\ proxies = <<>>
    /\ stdio = <<>>
    /\ NoWindow

\* One call of update_yaml on a file that exists; the calls after the
\* first are made with the same two options.
CallUpdateYaml ==
    /\ calls < MaxCalls
    /\ \E config_path \in DOMAIN files, ps \in NewProxyLists,
          add_to_speedtest \in BOOLEAN, add_to_manual \in BOOLEAN,
          output_path \in OutputPaths :
          /\ calls > 0 => /\ add_to_speedtest = args.add_to_speedtest
                          /\ add_to_manual = args.add_to_manual
          /\ args' = [config_path |-> config_path, proxies |-> ps,
                      add_to_speedtest |-> add_to_speedtest,
                      add_to_manual |-> add_to_manual, output_path |-> output_path]
          /\ LET o == update_yaml(files, config_path, ps, add_to_speedtest,
                                  add_to_manual, output_path)
             IN  /\ result' = o.result
                 /\ files' = o.files
                 /\ loaded' = o.loaded
                 /\ data' = o.data
    /\ calls' = calls + 1
    /\ pc' = "update_yaml"
    /\ UNCHANGED <<linkVars, subVars, convertVars, mainVars, guiVars>>

NextMerge == CallUpdateYaml

SpecMerge == InitMerge /\ [][NextMerge]_vars

-----------------------------------------------------------------------------
(* Claims about update_yaml, checked under SpecMerge.  After a call,       *)
(* loaded is the document as read and data the document as written.        *)

Succeeded == pc = "update_yaml" /\ IsStr(result)
ProxiesOf(doc) ==
    IF DictGet(doc, KeyProxies, None).kind = "list"
    THEN DictGet(doc, KeyProxies, None).items ELSE <<>>
GroupsOf(doc) ==
    IF DictGet(doc, KeyProxyGroups, None).kind = "list"
    THEN DictGet(doc, KeyProxyGroups, None).items ELSE <<>>
HasMemberList(g) == g.kind = "dict" /\ DictGet(g, KeyProxies, None).kind = "list"
Members(g) == DictGet(g, KeyProxies, None).items
NewNames == [k \in 1..Len(args.proxies) |-> args.proxies[k].name]
Count(x, seq) == Cardinality({k \in 1..Len(seq) : seq[k] = x})
IsPrefix(a, b) == Len(a) <= Len(b) /\ SubSeq(b, 1, Len(a)) = a

\* C8: after update_yaml the proxies sequence is its previous contents
\* (empty if the key was absent) followed by every new record in input
\* order; nothing is removed, reordered or deduplicated.
C8_ProxiesAppended ==
    Succeeded =>
        /\ ProxiesOf(data) = ProxiesOf(loaded) \o args.proxies
        /\ files[result.s] = data

\* A second merge of a record that the document holds already, next to
\* another record of the same name.
C8_Witness ==
    /\ Succeeded /\ calls = 2
    /\ args.proxies = <<ProxyN, ProxyN2>>
    /\ \E k \in 1..Len(ProxiesOf(loaded)) : ProxiesOf(loaded)[k] = ProxyN
    /\ Count(ProxyN, ProxiesOf(data)) >= 2

\* The group's type is written exactly as one of the eligible types.
ExactlyEligible(g) ==
    \/ /\ args.add_to_speedtest
       /\ DictGet(g, KeyType, None) \in {PyStr(UrlTest), PyStr(Fallback), PyStr(LoadBalance)}
    \/ /\ args.add_to_manual
       /\ DictGet(g, KeyType, None) = PyStr(Select)

\* The group's type, as text in lower case, is one of the eligible types.
Eligible(g) ==
    LET t == Lower(PyStrOf(DictGet(g, KeyType, PyStr(<<>>))))
    IN  \/ args.add_to_speedtest /\ t \in {UrlTest, Fallback, LoadBalance}
        \/ args.add_to_manual /\ t = Select

\* Group g has become h by receiving the new names: its list is extended,
\* by new names only, and holds every new name.
Received(g, h) ==
    /\ HasMemberList(h)
    /\ IsPrefix(Members(g), Members(h))
    /\ \A k \in (Len(Members(g)) + 1)..Len(Members(h)) :
          \E j \in 1..Len(NewNames) : NewNames[j] = Members(h)[k]
    /\ \A j \in 1..Len(NewNames) : PyIn(NewNames[j], Members(h))

\* C9 as stated: a group receives the new names if and only if a flag is
\* set for its type, the type being exactly url-test, fallback or
\* load-balance (add_to_speedtest) or exactly select (add_to_manual); every
\* other group, "Select" included, is left unchanged.
C9_ExactTypeDecides ==
    Succeeded =>
        \A i \in 1..Len(GroupsOf(loaded)) :
            HasMemberList(GroupsOf(loaded)[i]) =>
                IF ExactlyEligible(GroupsOf(loaded)[i])
                THEN Received(GroupsOf(loaded)[i], GroupsOf(data)[i])
                ELSE GroupsOf(data)[i] = GroupsOf(loaded)[i]

\* C9 amended: a group receives the new names if and only if a flag is set
\* for its type, the type being compared in lower case (so "Select" and
\* "URL-TEST" are eligible); every other group is left unchanged.
C9_LowerCasedTypeDecides ==
    Succeeded =>
        /\ Len(GroupsOf(data)) = Len(GroupsOf(loaded))
        /\ \A i \in 1..Len(GroupsOf(loaded)) :
              IF HasMemberList(GroupsOf(loaded)[i]) /\ Eligible(GroupsOf(loaded)[i])
              THEN Received(GroupsOf(loaded)[i], GroupsOf(data)[i])
              ELSE GroupsOf(data)[i] = GroupsOf(loaded)[i]

\* A merge with add_to_manual alone: the group of type "Select" has grown,
\* the url-test group has not.
C9_Witness ==
    /\ Succeeded /\ args.add_to_manual /\ ~args.add_to_speedtest
    /\ \E i, j \in 1..Len(GroupsOf(loaded)) :
          /\ DictGet(GroupsOf(loaded)[i], KeyType, None) = PyStr(Str("Select"))
          /\ Len(Members(GroupsOf(data)[i])) > Len(Members(GroupsOf(loaded)[i]))
          /\ DictGet(GroupsOf(loaded)[j], KeyType, None) = PyStr(UrlTest)
          /\ GroupsOf(data)[j] = GroupsOf(loaded)[j]

\* The configuration the calls started from: its file is never written to.
InitialConfig == CHOOSE c \in Configs : c[1] \in DOMAIN files /\ files[c[1]] = c[2]

\* C10: a name that an eligible group did not hold at the start is in the
\* group's list exactly once after a call that adds it, however many calls
\* added it before and however many of the call's records carry it; names
\* are compared by exact equality.
C10_NoDuplicateNames ==
    Succeeded =>
        \A i \in 1..Len(GroupsOf(data)) :
            (HasMemberList(GroupsOf(data)[i]) /\ Eligible(GroupsOf(data)[i])) =>
                \A j \in 1..Len(NewNames) :
                    Count(NewNames[j], Members(GroupsOf(InitialConfig[2])[i])) = 0
                        => Count(NewNames[j], Members(GroupsOf(data)[i])) = 1

\* A later call carries two records named N into a group that an earlier
\* call had already given the name N.
C10_Witness ==
    /\ Succeeded /\ calls >= 2
    /\ args.proxies = <<ProxyN, ProxyN2>>
    /\ \E i \in 1..Len(GroupsOf(data)) :
          /\ HasMemberList(GroupsOf(data)[i]) /\ Eligible(GroupsOf(data)[i])
          /\ Count(ProxyN.name, Members(GroupsOf(InitialConfig[2])[i])) = 0
          /\ Count(ProxyN.name, Members(GroupsOf(loaded)[i])) = 1
          /\ Count(ProxyN.name, Members(GroupsOf(data)[i])) = 1

-----------------------------------------------------------------------------
(* What a merge leaves alone.                                              *)

Keys(d) == {d.items[k][1] : k \in 1..Len(d.items)}
OtherKeys(d) == Keys(d) \ {KeyProxies, KeyProxyGroups}
\* The group's fields other than its member list.
OtherFields(g) == [key \in Keys(g) \ {KeyProxies} |-> DictGet(g, key, Absent)]
\* Group h is group g but for its member list, which has only grown.
SameButMembers(g, h) ==
    IF HasMemberList(g)
    THEN /\ HasMemberList(h)
         /\ OtherFields(h) = OtherFields(g)
         /\ [k \in 1..Len(g.items) |-> g.items[k][1]]
               = [k \in 1..Len(h.items) |-> h.items[k][1]]
         /\ IsPrefix(Members(g), Members(h))
    ELSE h = g

\* C11: the merge preserves structure.  In the document written by a
\* successful update_yaml every top-level key other than proxies and
\* proxy-groups has the value it was loaded with, no such key is added or
\* lost, and the groups of proxy-groups are the same in number and order,
\* each with its name, type and other fields unchanged; only member lists
\* grow.
C11_StructurePreserved ==
    Succeeded =>
        /\ OtherKeys(files[result.s]) = OtherKeys(loaded)
        /\ \A key \in OtherKeys(loaded) :
              DictGet(files[result.s], key, Absent) = DictGet(loaded, key, Absent)
        /\ DictHas(loaded, KeyProxyGroups) =>
              /\ DictHas(files[result.s], KeyProxyGroups)
              /\ DictGet(files[result.s], KeyProxyGroups, Absent).kind
                    = DictGet(loaded, KeyProxyGroups, Absent).kind
        /\ Len(GroupsOf(files[result.s])) = Len(GroupsOf(loaded))
        /\ \A i \in 1..Len(GroupsOf(loaded)) :
              SameButMembers(GroupsOf(loaded)[i], GroupsOf(files[result.s])[i])

\* A merge with both flags set into a document that has a port and rules:
\* a group has grown and the port and the rules are as they were.
C11_Witness ==
    /\ Succeeded /\ args.add_to_speedtest /\ args.add_to_manual
    /\ OtherKeys(loaded) = {Str("port"), Str("rules")}
    /\ DictGet(files[result.s], Str("rules"), Absent) = Rules
    /\ \E i \in 1..Len(GroupsOf(loaded)) :
          Len(Members(GroupsOf(files[result.s])[i])) > Len(Members(GroupsOf(loaded)[i]))

-----------------------------------------------------------------------------
(* Structure violations.                                                   *)

\* The keys of the loaded document that hold a value of the wrong shape:
\* proxies, when it has a value other than null that is no sequence, and,
\* with a flag set, proxy-groups, when the key is there and its value is no
\* sequence.
ViolatingKeys(doc, a) ==
    IF doc.kind # "dict" THEN {}
    ELSE {key \in {KeyProxies} :
             DictGet(doc, key, None).kind \notin {"None", "list"}}
         \cup {key \in {KeyProxyGroups} :
                  /\ a.add_to_speedtest \/ a.add_to_manual
                  /\ DictHas(doc, key)
                  /\ DictGet(doc, key, None).kind # "list"}

Quoted(key) == Str("'") \o key \o Str("'")

\* C12: structure violations are fatal and happen before any write.  A call
\* of update_yaml on a document with a violating key raises a TypeError
\* whose message names such a key, and the call leaves every file as it
\* was: no output file is created or written, the original is untouched.
C12_ViolationFailsBeforeWrite ==
    [][(pc' = "update_yaml" /\ ViolatingKeys(loaded', args') # {}) =>
          /\ IsRaised(result') /\ result'.exc = "TypeError"
          /\ \E key \in ViolatingKeys(loaded', args') :
                Contains(result'.message, Quoted(key))
          /\ files' = files]_vars

\* The scenario of the specification: proxy-groups is a string and a flag
\* is set; the call has raised the TypeError for proxy-groups and the
\* configuration is the only file there is.
C12_Witness ==
    /\ pc = "update_yaml" /\ calls = 1
    /\ loaded.kind = "dict"
    /\ DictGet(loaded, KeyProxyGroups, None).kind = "str"
    /\ args.add_to_manual
    /\ IsRaised(result) /\ result.exc = "TypeError"
    /\ result.message = Str("Expected 'proxy-groups' to be a list, got str")
    /\ DOMAIN files = {args.config_path}
    /\ files[args.config_path] = loaded

-----------------------------------------------------------------------------
(* convert_subscription.py: main, the command-line entry point.  A text    *)
(* file holds its text.                                                    *)

TextFile(t) == [kind |-> "text", s |-> t]

\* read_subscription_input, lines 344-347: the argument names a file that
\* exists, or is the payload itself.
read_subscription_input(fs, path_or_data) ==
    IF path_or_data \in DOMAIN fs THEN fs[path_or_data].s ELSE path_or_data

\* convert_links_to_proxies as one call: lines 133-136 for the links from
\* position k on; an exception of link_to_clash leaves the function.
RECURSIVE ConvertFrom(_, _, _)
ConvertLink(ls, k, ps, proxy) ==
    IF IsRaised(proxy) THEN proxy ELSE ConvertFrom(ls, k + 1, Appended(ps, proxy))
ConvertFrom(ls, k, ps) ==
    IF k > Len(ls) THEN PyList(ps) ELSE ConvertLink(ls, k, ps, link_to_clash(ls[k]))
convert_links_to_proxies(ls) == ConvertFrom(ls, 1, <<>>)

\* A test that never finds a list empty.
NotNever(list) == FALSE

\* Lines 385 and 390: not links, not proxies.
Not(list) == list = <<>>

NoLinksMessage == Str("No valid links found in the subscription input.\n")
NoNodesMessage == Str("No supported nodes were parsed from the subscription.\n")
SavedMessage(output_path) ==
    Str("Merged configuration saved to: ") \o output_path \o Str("\n")

\* The subscriptions main is started on: an empty and a blank payload, a
\* word, a link of an unsupported scheme, a list in plain text and as a
\* blob with one link that decodes and one that does not, and the name of
\* a file that holds such a list.
SubFile == Str("sub.txt")
MixedList ==
    Str("http://h.x:443#N") \o NL
        \o Str("ss://") \o Encoded(Str("rc4:pw")) \o Str("@1.2.3.4:8388#Test") \o NL
Subscriptions ==
    {<<>>, Str(" \n"), Str("hello"), Str("http://h.x:443#N"),
     MixedList, Encoded(MixedList), SubFile}

InitMain ==
    /\ pc = "start"
    /\ \E c \in Configs :
          files = [q \in {c[1], SubFile} |->
                      IF q = SubFile THEN TextFile(MixedList) ELSE c[2]]
    /\ args = None /\ loaded = None /\ data = None /\ calls = 0
    /\ result = None
    /\ inLink = None /\ content = <<>>
    /\ links = <<>> /\ idx = 0 /\ proxies = <<>>
    /\ stdio = <<>>
    /\ NoWindow

\* Lines 352-381: the arguments as parse_args hands them over.
MainBegin ==
    /\ pc = "start"
    /\ \E subscription \in Subscriptions, config \in DOMAIN files \ {SubFile},
          output \in OutputPaths, speedtest \in BOOLEAN, manual \in BOOLEAN :
          args' = [subscription |-> subscription, config |-> config,
                   output |-> output, speedtest |-> speedtest, manual |-> manual]
    /\ pc' = "main"
    /\ UNCHANGED <<result, files, loaded, data, calls, linkVars, subVars, convertVars,
                   mainVars, guiVars>>

\* Line 383.
MainRead ==
    /\ pc = "main"
    /\ content' = read_subscription_input(files, args.subscription)
    /\ pc' = "read"
    /\ UNCHANGED <<result, linkVars, convertVars, mergeVars, mainVars, guiVars>>

\* Lines 384-387.
MainParse ==
    /\ pc = "read"
    /\ links' = parse_subscription(content).items
    /\ IF Not(links')
       THEN /\ stdio' = Append(stdio, <<"stderr", NoLinksMessage>>)
            /\ result' = PyInt(1)
            /\ pc' = "returned"
       ELSE /\ pc' = "parsed"
            /\ UNCHANGED <<result, stdio>>
    /\ UNCHANGED <<idx, proxies, linkVars, subVars, mergeVars, guiVars>>

\* Lines 389-392, r being what convert_links_to_proxies gave.
MainConverted(r) ==
    IF IsRaised(r)
    THEN /\ result' = r /\ pc' = "raised"
         /\ UNCHANGED <<proxies, stdio>>
    ELSE /\ proxies' = r.items
         /\ IF Not(r.items)
            THEN /\ stdio' = Append(stdio, <<"stderr", NoNodesMessage>>)
                 /\ result' = PyInt(1)
                 /\ pc' = "returned"
            ELSE /\ pc' = "converted"
                 /\ UNCHANGED <<result, stdio>>

MainConvert ==
    /\ pc = "parsed"
    /\ MainConverted(convert_links_to_proxies(links))
    /\ UNCHANGED <<links, idx, linkVars, subVars, mergeVars, guiVars>>

\* Lines 394-402, o being what update_yaml left: an exception of
\* update_yaml leaves main.
MainMerged(o) ==
    /\ files' = o.files /\ loaded' = o.loaded /\ data' = o.data
    /\ IF IsRaised(o.result)
       THEN /\ result' = o.result /\ pc' = "raised"
            /\ UNCHANGED stdio
       ELSE /\ stdio' = Append(stdio, <<"stdout", SavedMessage(o.result.s)>>)
            /\ result' = PyInt(0)
            /\ pc' = "returned"

MainMerge ==
    /\ pc = "converted"
    /\ MainMerged(update_yaml(files, args.config, proxies, args.speedtest, args.manual,
                              args.output))
    /\ calls' = calls + 1
    /\ UNCHANGED <<args, linkVars, subVars, convertVars, guiVars>>

NextMain == MainBegin \/ MainRead \/ MainParse \/ MainConvert \/ MainMerge

SpecMain == InitMain /\ [][NextMain]_vars

-----------------------------------------------------------------------------
(* Claims about main, checked under SpecMain.                              *)

\* The step ends main with exit code 1 and update_yaml was not called: no
\* file has changed and there is no file at the output path.
ReturnsOneUnmerged ==
    /\ pc' = "returned" /\ result' = PyInt(1)
    /\ calls' = 0
    /\ files' = files
    /\ OutputPath(args.config, args.output) \notin DOMAIN files'

\* C13: main returns 1 when parse_subscription yields no links and returns
\* 1 when no link converts to a record, in both cases without calling
\* update_yaml and without writing an output file; it returns 0 only from
\* a completed update_yaml, whose merged document is then in the output
\* file.
C13_ExitCodes ==
    [][/\ (pc = "read" /\ links' = <<>>) => ReturnsOneUnmerged
       /\ (pc = "parsed" /\ pc' # "raised" /\ proxies' = <<>>) => ReturnsOneUnmerged
       /\ (pc' = "returned" /\ result' = PyInt(1)) => calls' = 0
       /\ (pc' = "returned" /\ result' = PyInt(0)) =>
             /\ pc = "converted" /\ calls' = 1
             /\ links' # <<>> /\ proxies' # <<>>
             /\ data' # None
             /\ files'[OutputPath(args.config, args.output)] = data']_vars

\* main has returned 1 on a subscription with links none of which
\* converts: nothing was merged and nothing written.
C13_Witness ==
    /\ pc = "returned" /\ result = PyInt(1)
    /\ links # <<>> /\ proxies = <<>>
    /\ calls = 0 /\ data = None
    /\ stdio = <<<<"stderr", NoNodesMessage>>>>
    /\ DOMAIN files = {args.config, SubFile}

-----------------------------------------------------------------------------
(* Failure while writing, checked under SpecMerge.                         *)

\* C14: no partial or corrupt output file is left behind on failure.  The
\* output text is complete before the output file is opened, so a call of
\* update_yaml that fails, in serialisation or before, leaves every file as
\* it was: the output path is not created empty, truncated or partly
\* written.
C14_NoOutputLeftOnFailure ==
    [][(pc' = "update_yaml" /\ IsRaised(result')) => files' = files]_vars

-----------------------------------------------------------------------------
(* convert_subscription.py: generate_individual_yaml_files.  Each proxy    *)
(* gets a file of its own, made from a deep copy of the template.  The     *)
(* text written is what the YAML library dumps, its line breaks after      *)
(* "rules:" redone (lines 323-324); a file is held as the document.        *)

KeyRules == Str("rules")
Sentinels == {PyStr(Str("DIRECT")), PyStr(Str("REJECT")), PyStr(Str("PASS"))}

\* for p in v: the members of a list, the characters of a string, the keys
\* of a mapping; nothing else can be gone through.
Iterable(v) == v.kind \in {"list", "str", "dict"}
Iterated(v) ==
    CASE v.kind = "list" -> v.items
      [] v.kind = "str" -> [k \in 1..Len(v.s) |-> PyStr(<<v.s[k]>>)]
      [] v.kind = "dict" -> [k \in 1..Len(v.items) |-> PyStr(v.items[k][1])]

\* Line 278: [p for p in group_proxies if p in ["DIRECT", "REJECT", "PASS"]]
SystemProxies(group_proxies) ==
    SelectSeq(Iterated(group_proxies), LAMBDA p : p \in Sentinels)

\* Lines 274-281 for one group: a mapping with a proxies key has its list
\* replaced; going through a proxies value that is null or a number raises.
GenGroup(group, name) ==
    IF group.kind # "dict" \/ ~DictHas(group, KeyProxies) THEN group
    ELSE IF ~Iterable(DictGet(group, KeyProxies, None)) THEN Raised("TypeError")
    ELSE DictSet(group, KeyProxies,
                 PyList(SystemProxies(DictGet(group, KeyProxies, None)) \o <<name>>))

\* Lines 273-281, the document having a proxy-groups key: the members of a
\* list are rewritten; the characters of a string and the keys of a mapping
\* are no group records; null or a number cannot be gone through.
GenGroupsDone(doc, groups) ==
    IF \E k \in 1..Len(groups) : IsRaised(groups[k]) THEN Raised("TypeError")
    ELSE DictSet(doc, KeyProxyGroups, PyList(groups))
GenGroups(doc, name) ==
    IF ~Iterable(DictGet(doc, KeyProxyGroups, None)) THEN Raised("TypeError")
    ELSE IF DictGet(doc, KeyProxyGroups, None).kind # "list" THEN doc
    ELSE GenGroupsDone(doc, [k \in 1..Len(DictGet(doc, KeyProxyGroups, None).items) |->
                                GenGroup(DictGet(doc, KeyProxyGroups, None).items[k], name)])

\* Lines 264-267: a key that is missing is added with an empty list.
Ensured(doc, key) == IF DictHas(doc, key) THEN doc ELSE DictSet(doc, key, PyList(<<>>))

\* Lines 284-290: a rules list is deleted and added again, which makes
\* rules the last key.
RulesLast(doc) ==
    IF IsRaised(doc) THEN doc
    ELSE IF DictGet(doc, KeyRules, None).kind # "list" THEN doc
    ELSE PyDict(SelectSeq(doc.items, LAMBDA it : it[1] # KeyRules)
                    \o <<<<KeyRules, DictGet(doc, KeyRules, None)>>>>)

\* copy.copy(v): a new mapping whose values are the objects of v itself.
ShallowCopy(v) == [doc |-> v, shared |-> {KeyProxyGroups}]

\* Line 261, copy.deepcopy(v): a document that shares no object with v.
DeepCopy(v) == [doc |-> v, shared |-> {}]

\* What the template holds after the work on a copy of it that has become
\* config_data: a value the copy shares with the template has changed in
\* the template as well.
TemplateAfter(template_data, shared, config_data) ==
    IF shared = {} \/ IsRaised(config_data) \/ template_data.kind # "dict"
    THEN template_data
    ELSE PyDict([k \in 1..Len(template_data.items) |->
                    IF template_data.items[k][1] \in shared
                    THEN <<template_data.items[k][1],
                           DictGet(config_data, template_data.items[k][1], None)>>
                    ELSE template_data.items[k]])

\* Lines 261-290: the document for one proxy.  A template that is no
\* mapping takes no item assignment.
GenConfig(template_data, proxy) ==
    IF template_data.kind # "dict" THEN Raised("TypeError")
    ELSE RulesLast(GenGroups(DictSet(Ensured(Ensured(template_data, KeyProxies),
                                             KeyProxyGroups),
                                     KeyProxies, PyList(<<proxy>>)),
                             proxy.name))

\* c.isalnum(): digits and letters; of the letters beyond ASCII, the ones
\* that occur in the names used here.
OtherLetters == {228, 33410, 28857}
IsAlnum(c) == IsDigit(c) \/ IsAlpha(c) \/ c \in OtherLetters

\* Lines 293-296, n files having been generated so far.
SafeNameOr(safe_name, n) ==
    IF safe_name = <<>> THEN Str("proxy_") \o Decimal(n + 1) ELSE safe_name
Underscored(t) == [k \in 1..Len(t) |-> IF t[k] = 32 THEN 95 ELSE t[k]]
SafeName(name, n) ==
    SafeNameOr(Underscored(Strip(SelectSeq(name,
                                           LAMBDA c : IsAlnum(c) \/ c \in {32, 45, 95}))),
               n)

\* os.path.join(output_dir, name)
PathJoin(dir, name) ==
    IF dir = <<>> THEN name
    ELSE IF dir[Len(dir)] = 47 THEN dir \o name
    ELSE dir \o Slash \o name

\* Lines 301-306: the path itself, or the first of base_1.ext, base_2.ext,
\* ... that does not exist.
Suffixed(original, counter) ==
    IF counter = 0 THEN original
    ELSE SplitExt(original)[1] \o Str("_") \o Decimal(counter) \o SplitExt(original)[2]
\* A choice of path that takes the first one, there or not.
FirstPath(fs, original) == original

FreePath(fs, original) ==
    Suffixed(original,
             CHOOSE c \in 0..Cardinality(DOMAIN fs) :
                /\ Suffixed(original, c) \notin DOMAIN fs
                /\ \A b \in 0..(c - 1) : Suffixed(original, b) \in DOMAIN fs)

\* What the work on one proxy leaves: the path written, or the exception,
\* and the files.
GenOutcome(r, fs) == [result |-> r, files |-> fs]

\* Lines 309-326: the file is opened for writing; a document that is no
\* ruamel CommentedMap has no yaml_set_comment_before_after_key (line 312);
\* the dump to the string raises for a value it cannot represent; then the
\* text is written.
GenWrite(fs, output_file, config_data, commented) ==
    IF ~commented THEN GenOutcome(Raised("AttributeError"), OpenForWriting(fs, output_file))
    ELSE IF ~Representable(config_data)
    THEN GenOutcome(Raised("RepresenterError"), OpenForWriting(fs, output_file))
    ELSE GenOutcome(PyStr(output_file),
                    YamlDump(OpenForWriting(fs, output_file), output_file, config_data))

\* Lines 259-328 for one proxy, config_data being its document.
GenFile(fs, config_data, proxy, n, output_dir, commented) ==
    IF IsRaised(config_data) THEN GenOutcome(config_data, fs)
    ELSE IF ~IsStr(proxy.name) THEN GenOutcome(Raised("TypeError"), fs)
    ELSE GenWrite(fs, FreePath(fs, PathJoin(output_dir, SafeName(proxy.name.s, n) \o YamlExt)),
                  config_data, commented)

\* The proxies files are generated for: records of one name, of names that
\* differ in case, of names that leave the same or no file name, of a name
\* with spaces, and a record that cannot be dumped.
Named(name) == SsProxy(name, Str("rc4"), Str("pw"), Str("h.x"), PyInt(1))
GenProxyLists ==
    {<<ProxyN>>, <<ProxyN, ProxyN2>>, <<ProxyM, ProxyLowerN>>, <<ProxyN, ProxyOpaque>>,
     <<Named(Str("N_1")), ProxyN, Named(Str("N!"))>>,
     <<Named(Str("proxy_2")), Named(Str("!!")), Named(<<128640>>)>>,
     <<Named(Str(" a b ") \o <<33410>>)>>}
OutputDirs == {Str("out"), Str("o.d/")}
\* A file that may be in the output directory already.
OldFile == Str("out/N.yaml")

InitGen ==
    /\ pc = "start"
    /\ \E c \in Configs, old \in SUBSET {OldFile} :
          files = [q \in {c[1]} \cup old |->
                      IF q = c[1] THEN c[2] ELSE TextFile(Str("old"))]
    /\ args = None /\ loaded = None /\ data = None /\ calls = 0
    /\ result = None
    /\ inLink = None /\ content = <<>>
    /\ links = <<>> /\ idx = 0 /\ proxies = <<>>
    /\ stdio = <<>>
    /\ NoWindow

\* Lines 244-257.  The template is given as a path, and is then loaded by
\* the YAML library at hand (ruamel gives a CommentedMap, PyYAML a dict, and
\* "or {}" a dict in place of an empty document), or it is given as a
\* document, a CommentedMap or not; with neither the call raises.
GenBegin ==
    /\ pc = "start"
    /\ \E ps \in GenProxyLists, output_dir \in OutputDirs,
          template_path \in {PyStr(q) : q \in DOMAIN files \ {OldFile}} \cup {None},
          template_data \in {files[q] : q \in DOMAIN files \ {OldFile}} \cup {None},
          commented \in BOOLEAN :
          /\ args' = [proxies |-> ps, output_dir |-> output_dir,
                      template_path |-> template_path,
                      template_data |-> template_data,
                      commented |->
                          IF template_data # None THEN commented
                          ELSE /\ commented
                               /\ template_path # None
                               /\ Truthy(files[template_path.s])]
          /\ IF template_data = None /\ template_path = None
             THEN /\ result' = Raised("ValueError")
                  /\ pc' = "raised"
                  /\ UNCHANGED <<loaded, data>>
             ELSE /\ loaded' = IF template_data # None THEN template_data
                                ELSE YamlLoad(files, template_path.s)
                  /\ data' = loaded'
                  /\ result' = PyList(<<>>)
                  /\ pc' = "gen_loop"
    /\ idx' = 0
    /\ UNCHANGED <<files, calls, links, proxies, linkVars, subVars, mainVars, guiVars>>

\* Lines 259-329 for the next proxy, o being what the work on it left;
\* data is the template as it is after the work.
GenStepped(o) ==
    /\ files' = o.files
    /\ IF IsRaised(o.result)
       THEN /\ result' = o.result /\ pc' = "raised"
            /\ UNCHANGED idx
       ELSE /\ result' = PyList(Append(result.items, o.result))
            /\ idx' = idx + 1
            /\ UNCHANGED pc

GenStep ==
    /\ pc = "gen_loop" /\ idx < Len(args.proxies)
    /\ GenStepped(GenFile(files, GenConfig(DeepCopy(data).doc, args.proxies[idx + 1]),
                          args.proxies[idx + 1], Len(result.items),
                          args.output_dir, args.commented))
    /\ data' = TemplateAfter(data, DeepCopy(data).shared,
                             GenConfig(DeepCopy(data).doc, args.proxies[idx + 1]))
    /\ UNCHANGED <<args, loaded, calls, links, proxies, linkVars, subVars, mainVars, guiVars>>

\* Line 331.
GenReturn ==
    /\ pc = "gen_loop" /\ idx = Len(args.proxies)
    /\ pc' = "generated"
    /\ UNCHANGED <<result, idx, links, proxies, linkVars, subVars, mergeVars, mainVars, guiVars>>

NextGen == GenBegin \/ GenStep \/ GenReturn

SpecGen == InitGen /\ [][NextGen]_vars

-----------------------------------------------------------------------------
(* Claims about generate_individual_yaml_files, checked under SpecGen.     *)

\* The call is one the function is made for: the template is a mapping,
\* its proxy-groups, if there, a sequence, the document a CommentedMap of
\* ruamel, and every record can be dumped.
GenCallInOrder ==
    /\ loaded.kind = "dict"
    /\ DictHas(loaded, KeyProxyGroups) => DictGet(loaded, KeyProxyGroups, None).kind = "list"
    /\ args.commented
    /\ \A k \in 1..Len(args.proxies) : Representable(args.proxies[k])

\* The list is entries among DIRECT, REJECT and PASS, followed by the name.
SentinelsThen(members, name) ==
    /\ members.kind = "list" /\ members.items # <<>>
    /\ members.items[Len(members.items)] = name
    /\ \A j \in 1..(Len(members.items) - 1) : members.items[j] \in Sentinels

\* C15: independent-file mode.  generate_individual_yaml_files produces one
\* document per input proxy; in the document for proxy P the proxies list
\* is exactly [P], and every group record's proxies list, whatever value
\* the template had there, consists only of the retained entries among
\* DIRECT, REJECT and PASS followed by P's name.
C15_OneDocumentPerProxy ==
    (pc \in {"generated", "raised"} /\ GenCallInOrder) =>
        /\ pc = "generated"
        /\ Len(result.items) = Len(args.proxies)
        /\ \A k \in 1..Len(args.proxies) :
              /\ DictGet(files[result.items[k].s], KeyProxies, None)
                    = PyList(<<args.proxies[k]>>)
              /\ \A i \in 1..Len(GroupsOf(files[result.items[k].s])) :
                    (/\ GroupsOf(files[result.items[k].s])[i].kind = "dict"
                     /\ DictHas(GroupsOf(loaded)[i], KeyProxies))
                    => SentinelsThen(DictGet(GroupsOf(files[result.items[k].s])[i],
                                             KeyProxies, None),
                                     args.proxies[k].name)

-----------------------------------------------------------------------------
(* Links written out from their parts.  args holds the parts a link was    *)
(* made of, a part that is left out being Absent, and inLink the link; the *)
(* decoders are then called as under SpecLink.                             *)

Given(part) == part # Absent
\* key=value, or nothing for a part that is left out.
Param(key, part) == IF Given(part) THEN <<Str(key) \o Str("=") \o part.s>> ELSE <<>>
\* ?a=1&b=2, or nothing without parameters.
Query(params) == IF params = <<>> THEN <<>> ELSE Str("?") \o Join(params, Str("&"))

\* A vless link: vless://uuid@hostname:443?type=..&security=..&host=..&sni=..&path=..#MyNode
VlessParts ==
    [scheme : {"vless"},
     hostname : {Str("host"), Str("H.x")},
     type : {Absent, PyStr(Str("ws")), PyStr(Str("grpc"))},
     security : {Absent, PyStr(Str("tls")), PyStr(Str("reality")), PyStr(Str("none")),
                 PyStr(Str("TLS"))},
     host : {Absent, PyStr(Str("example.com")), PyStr(<<>>)},
     sni : {Absent, PyStr(Str("s.x"))},
     path : {Absent, PyStr(Str("%2Fapi"))}]
VlessLink(a) ==
    Str("vless://uuid@") \o a.hostname \o Str(":443")
        \o Query(Param("type", a.type) \o Param("security", a.security)
                    \o Param("host", a.host) \o Param("sni", a.sni)
                    \o Param("path", a.path))
        \o Str("#MyNode")

\* A Shadowsocks link in layout "a", base64(method:password)@host:port, or
\* in layout "b", base64(method:password@host:port), with its padding or
\* without, and with a tag or without.
SsParts ==
    [scheme : {"ss"},
     layout : {"a", "b"},
     method : {Str("aes-256-gcm"), Str("rc4")},
     password : {Str("password"), Str("p:w"), Str("p@ss")},
     host : {Str("1.2.3.4"), Str("h.x"), Str("[::1]")},
     port : {1, 8388, 65535},
     padded : BOOLEAN,
     tag : {Absent, PyStr(Str("Test"))}]
SsBlock(text, padded) == IF padded THEN Encoded(text) ELSE Unpadded(text)
SsLink(a) ==
    Str("ss://")
        \o (IF a.layout = "a"
            THEN SsBlock(a.method \o Str(":") \o a.password, a.padded)
                    \o Str("@") \o a.host \o Str(":") \o Decimal(a.port)
            ELSE SsBlock(a.method \o Str(":") \o a.password \o Str("@") \o a.host
                            \o Str(":") \o Decimal(a.port), a.padded))
        \o (IF Given(a.tag) THEN Str("#") \o a.tag.s ELSE <<>>)

\* A vmess link: vmess://base64 of a JSON object with the fields given.
VmessParts ==
    [scheme : {"vmess"},
     ps : {Absent, PyStr(Str("n"))},
     add : {Absent, PyStr(Str("h.x"))},
     scy : {Absent, PyStr(Str("aes-128-gcm"))},
     net : {Absent, PyStr(Str("ws"))},
     tls : {Absent, PyStr(Str("tls")), PyStr(Str("TLS")), PyStr(<<>>), PyBool(TRUE)},
     sni : {Absent, PyStr(Str("s.x"))}]
JsonText(v) ==
    IF v.kind = "bool" THEN (IF v.b THEN Str("true") ELSE Str("false"))
    ELSE Str("\"") \o v.s \o Str("\"")
Member(key, part) ==
    IF Given(part) THEN <<Str("\"") \o Str(key) \o Str("\":") \o JsonText(part)>> ELSE <<>>
VmessLink(a) ==
    Str("vmess://")
        \o Encoded(Str("{")
                      \o Join(Member("ps", a.ps) \o Member("add", a.add)
                                 \o <<Str("\"port\":443"), Str("\"id\":\"u\"")>>
                                 \o Member("scy", a.scy) \o Member("net", a.net)
                                 \o Member("tls", a.tls) \o Member("sni", a.sni),
                              Str(","))
                      \o Str("}"))

InitParts ==
    /\ pc = "start"
    /\ \/ \E a \in VlessParts : args = a /\ inLink = PyStr(VlessLink(a))
       \/ \E a \in SsParts : args = a /\ inLink = PyStr(SsLink(a))
       \/ \E a \in VmessParts : args = a /\ inLink = PyStr(VmessLink(a))
    /\ result = None
    /\ content = <<>>
    /\ links = <<>> /\ idx = 0 /\ proxies = <<>>
    /\ files = <<>> /\ loaded = None /\ data = None /\ calls = 0
    /\ stdio = <<>>
    /\ NoWindow

SpecParts == InitParts /\ [][NextLink]_vars

-----------------------------------------------------------------------------
(* Claims about the fields of decoded records, checked under SpecParts.    *)

\* The parameter is in the link and has a value.
Supplied(part) == Given(part) /\ part.s # <<>>
VlessDecoded == pc = "vless_to_clash" /\ args.scheme = "vless"
SecurityIsTls(a) == a.security \in {PyStr(Str("tls")), PyStr(Str("reality"))}

\* C16: VLESS decoding.  tls is true if and only if the security parameter
\* is "tls" or "reality"; servername is present if and only if tls is true,
\* and is the host parameter if given, otherwise the sni parameter if
\* given, otherwise the server hostname.
C16_VlessTlsAndServername ==
    VlessDecoded =>
        /\ IsProxy(result)
        /\ result.server = PyStr(Lower(args.hostname))
        /\ result.tls = PyBool(SecurityIsTls(args))
        /\ (result.servername # Absent) <=> SecurityIsTls(args)
        /\ SecurityIsTls(args) =>
              result.servername = IF Supplied(args.host) THEN args.host
                                  ELSE IF Supplied(args.sni) THEN args.sni
                                  ELSE result.server

\* A link with security=reality and an sni but no host has been decoded:
\* tls is true and servername is the sni.
C16_Witness ==
    /\ VlessDecoded /\ IsProxy(result)
    /\ args.security = PyStr(Str("reality"))
    /\ args.host = Absent /\ args.sni = PyStr(Str("s.x"))
    /\ result.tls = PyBool(TRUE)
    /\ result.servername = PyStr(Str("s.x"))

\* The link of the scenario and the fields it is to yield.
ScenarioLink ==
    Str("vless://uuid@host:443?type=ws&security=tls&host=example.com&path=%2Fapi#MyNode")
ScenarioDecoded ==
    /\ IsProxy(result)
    /\ result.name = PyStr(Str("MyNode")) /\ result.server = PyStr(Str("host"))
    /\ result.port = PyInt(443) /\ result.network = PyStr(Str("ws"))
    /\ result.tls = PyBool(TRUE) /\ result.servername = PyStr(Str("example.com"))
    /\ result.ws_opts = [path |-> PyStr(Str("/api")), Host |-> PyStr(Str("example.com"))]

\* The path a link of these parts asks for: %2Fapi unquoted, or the default.
PathAsked(a) == IF Given(a.path) THEN PyStr(Str("/api")) ELSE PyStr(Str("/"))

\* C17 as stated: with network "ws" the record has a ws-opts block whose
\* path is the path parameter (default "/") and whose Host header follows
\* the preference order of servername: the host parameter if given,
\* otherwise the sni parameter if given, otherwise the server hostname; the
\* scenario link yields the fields the specification lists.
C17_WsHostLikeServername ==
    VlessDecoded =>
        /\ (result.ws_opts # Absent) <=> args.type = PyStr(Str("ws"))
        /\ args.type = PyStr(Str("ws")) =>
              /\ result.ws_opts.path = PathAsked(args)
              /\ result.ws_opts.Host = IF Supplied(args.host) THEN args.host
                                       ELSE IF Supplied(args.sni) THEN args.sni
                                       ELSE result.server
        /\ inLink = PyStr(ScenarioLink) => ScenarioDecoded

\* C17 amended: with network "ws" the record has a ws-opts block whose path
\* is the path parameter (default "/") and whose Host header is the host
\* parameter if given, otherwise the server hostname, the sni parameter
\* playing no part; the scenario link yields the fields the specification
\* lists.
C17_WsHostOrServer ==
    VlessDecoded =>
        /\ (result.ws_opts # Absent) <=> args.type = PyStr(Str("ws"))
        /\ args.type = PyStr(Str("ws")) =>
              /\ result.ws_opts.path = PathAsked(args)
              /\ result.ws_opts.Host = IF Supplied(args.host) THEN args.host
                                       ELSE result.server
        /\ inLink = PyStr(ScenarioLink) => ScenarioDecoded

\* A ws link with TLS, an sni and no host has been decoded: servername is
\* the sni and the Host header is the server.
C17_Witness ==
    /\ VlessDecoded /\ IsProxy(result)
    /\ args.type = PyStr(Str("ws")) /\ args.security = PyStr(Str("tls"))
    /\ args.host = Absent /\ args.sni = PyStr(Str("s.x"))
    /\ result.servername = PyStr(Str("s.x"))
    /\ result.ws_opts.Host = PyStr(Str("host"))

SsDecodedFromParts == pc = "ss_to_clash" /\ args.scheme = "ss"
\* The record a Shadowsocks link of these parts stands for.
SsRecord(a) ==
    [kind |-> "proxy",
     name |-> IF Given(a.tag) THEN a.tag ELSE PyStr(Str("SS_Node")),
     type |-> PyStr(Str("ss")),
     server |-> PyStr(a.host), port |-> PyInt(a.port),
     cipher |-> PyStr(a.method), password |-> PyStr(a.password)]
OtherLayout(a) == [a EXCEPT !.layout = IF a.layout = "a" THEN "b" ELSE "a"]

\* C18: Shadowsocks decoding supports both layouts equivalently.  For every
\* method, password, host and port the link in layout (a) and the link in
\* layout (b) decode to the same record, with cipher the method, password
\* the password, server the host and port the integer port.
C18_SsLayoutsEquivalent ==
    (SsDecodedFromParts /\ args.padded) =>
        /\ result = SsRecord(args)
        /\ ss_to_clash(SsLink(OtherLayout(args))) = result

VmessDecodedFromParts == pc = "vmess_to_clash" /\ args.scheme = "vmess"
\* The field of the JSON object, or the default when the object lacks it.
FieldOr(part, default) == IF Given(part) THEN part ELSE default

\* C19: VMess decoding.  tls is true if and only if the JSON tls field is
\* the string "tls"; servername is present if and only if tls is true, and
\* is the JSON sni field, or the add field when sni is absent; name
\* defaults to "VMess_Node", cipher to "auto" and network to "tcp" when the
\* JSON object lacks the field.
C19_VmessTlsAndDefaults ==
    VmessDecodedFromParts =>
        /\ IsProxy(result)
        /\ result.tls = PyBool(args.tls = PyStr(Str("tls")))
        /\ (result.servername # Absent) <=> args.tls = PyStr(Str("tls"))
        /\ args.tls = PyStr(Str("tls")) =>
              result.servername = FieldOr(args.sni, FieldOr(args.add, None))
        /\ result.name = FieldOr(args.ps, PyStr(Str("VMess_Node")))
        /\ result.cipher = FieldOr(args.scy, PyStr(Str("auto")))
        /\ result.network = FieldOr(args.net, PyStr(Str("tcp")))

\* An object with "tls":"tls" and an add but no sni, ps, scy or net has
\* been decoded: servername is the add and the three defaults are in.
C19_Witness ==
    /\ VmessDecodedFromParts /\ IsProxy(result)
    /\ args.tls = PyStr(Str("tls")) /\ args.sni = Absent
    /\ args.ps = Absent /\ args.scy = Absent /\ args.net = Absent
    /\ result.tls = PyBool(TRUE)
    /\ result.servername = PyStr(Str("h.x"))
    /\ result.name = PyStr(Str("VMess_Node"))
    /\ result.cipher = PyStr(Str("auto")) /\ result.network = PyStr(Str("tcp"))

-----------------------------------------------------------------------------
(* Groups without a member list.                                           *)

\* The positions of the group records of doc whose proxies field is
\* missing or is no sequence.
SkippedGroups(doc) ==
    {i \in 1..Len(GroupsOf(doc)) :
        GroupsOf(doc)[i].kind = "dict" /\ ~HasMemberList(GroupsOf(doc)[i])}

\* update_yaml has been called with a flag set, on a document of the right
\* shape and with records that can be written, and the document has a
\* group record without a member list.
CalledWithSkippedGroup ==
    /\ pc = "update_yaml"
    /\ args.add_to_speedtest \/ args.add_to_manual
    /\ loaded.kind = "dict" /\ ViolatingKeys(loaded, args) = {}
    /\ \A k \in 1..Len(args.proxies) : Representable(args.proxies[k])
    /\ SkippedGroups(loaded) # {}

\* C20: in update_yaml a group record whose proxies field is missing or is
\* not a sequence is skipped without error: the merge succeeds, that group
\* is unchanged, and every other eligible group of the same document still
\* receives the new names.
C20_GroupWithoutListSkipped ==
    CalledWithSkippedGroup =>
        /\ Succeeded
        /\ Len(GroupsOf(data)) = Len(GroupsOf(loaded))
        /\ \A i \in SkippedGroups(loaded) : GroupsOf(data)[i] = GroupsOf(loaded)[i]
        /\ \A j \in 1..Len(GroupsOf(loaded)) :
              (HasMemberList(GroupsOf(loaded)[j]) /\ Eligible(GroupsOf(loaded)[j]))
                  => Received(GroupsOf(loaded)[j], GroupsOf(data)[j])

\* A merge with both flags into a document that has a select group with no
\* proxies key and a url-test group whose proxies is a string, both before
\* a select group that has grown.
C20_Witness ==
    /\ CalledWithSkippedGroup /\ Succeeded /\ calls = 1
    /\ args.add_to_speedtest /\ args.add_to_manual
    /\ \E i, j, k \in 1..Len(GroupsOf(loaded)) :
          /\ i < k /\ j < k
          /\ i \in SkippedGroups(loaded) /\ j \in SkippedGroups(loaded)
          /\ ~DictHas(GroupsOf(loaded)[i], KeyProxies)
          /\ Eligible(GroupsOf(loaded)[i])
          /\ DictGet(GroupsOf(loaded)[j], KeyProxies, None).kind = "str"
          /\ Eligible(GroupsOf(loaded)[j])
          /\ GroupsOf(data)[i] = GroupsOf(loaded)[i]
          /\ GroupsOf(data)[j] = GroupsOf(loaded)[j]
          /\ HasMemberList(GroupsOf(loaded)[k])
          /\ Len(Members(GroupsOf(data)[k])) > Len(Members(GroupsOf(loaded)[k]))

-----------------------------------------------------------------------------
(* Shadowsocks links without their padding.                                *)

\* The base64 block of a Shadowsocks link of these parts, and the same
\* parts with the padding written out.
SsBlockOf(a) ==
    IF a.layout = "a"
    THEN SsBlock(a.method \o Str(":") \o a.password, a.padded)
    ELSE SsBlock(a.method \o Str(":") \o a.password \o Str("@") \o a.host
                    \o Str(":") \o Decimal(a.port), a.padded)
FullyPadded(a) == [a EXCEPT !.padded = TRUE]

\* C21: Shadowsocks base64 decoding is padding-tolerant.  A link whose
\* credential or whole-link block has its trailing '=' characters left out
\* (the block's length modulo 4 is then 0, 2 or 3) decodes to the same
\* method, password, host and port as the fully padded link.
C21_PaddingTolerant ==
    (SsDecodedFromParts /\ ~args.padded) =>
        /\ Len(SsBlockOf(args)) % 4 \in {0, 2, 3}
        /\ result = ss_to_clash(SsLink(FullyPadded(args)))
        /\ (~Contains(args.password, Str("@")) /\ ~Contains(args.host, Str(":")))
              => result = SsRecord(args)

\* A credential block of 10 digits, its two '=' left out, has been decoded
\* to the record of its parts.
C21_Witness ==
    /\ SsDecodedFromParts /\ ~args.padded /\ args.layout = "a"
    /\ Len(SsBlockOf(args)) = 10
    /\ Len(SsBlockOf(FullyPadded(args))) = 12
    /\ result = SsRecord(args)

-----------------------------------------------------------------------------
(* Where the merged document goes.                                         *)

\* The file system fs with the document doc written at path.
WithFile(fs, path, doc) ==
    [q \in DOMAIN fs \cup {path} |-> IF q = path THEN doc ELSE fs[q]]

\* The next state is the return of a call of update_yaml that succeeded and
\* wrote the merged document at path and nowhere else.
WrittenAt(path) ==
    /\ result' = PyStr(path)
    /\ files' = WithFile(files, path, data')

-----------------------------------------------------------------------------
(* The paths of the generated files.                                       *)

\* The paths of the list are pairwise distinct.
PairwiseDistinct(paths) ==
    \A i, j \in 1..Len(paths) : i # j => paths[i] # paths[j]

\* The step has generated the file of proxy number idx + 1.
FileGenerated == pc = "gen_loop" /\ idx' = idx + 1

\* p is the path made from the name of proxy number idx + 1, or that path
\* with one of the suffixes _1 .. _n, n the number of files there are.
FoundWithin(p) ==
    \E c \in 0..Cardinality(DOMAIN files) :
        p = Suffixed(PathJoin(args.output_dir,
                              SafeName(args.proxies[idx + 1].name.s, idx) \o YamlExt),
                     c)

\* C23: generate_individual_yaml_files returns exactly one path per input
\* proxy; the returned paths are pairwise distinct, also for proxies of the
\* same name or of names that give the same or an empty file name; no file
\* that existed is overwritten; and the search for a free suffix ends, at
\* the latest at the number of files that exist.
C23_DistinctPathsNoOverwrite ==
    [][/\ \A q \in DOMAIN files : q \in DOMAIN files' /\ files'[q] = files[q]
       /\ FileGenerated =>
             /\ result'.items[idx'].s \notin DOMAIN files
             /\ result'.items[idx'].s \in DOMAIN files'
             /\ FoundWithin(result'.items[idx'].s)
       /\ pc' = "generated" =>
             /\ Len(result'.items) = Len(args'.proxies)
             /\ PairwiseDistinct(result'.items)]_vars

\* Files have been generated for the names N_1, N and N! into a directory
\* that had N.yaml already: the old file is as it was and the three paths
\* are N_1.yaml, N_2.yaml and N_3.yaml.
C23_Witness ==
    /\ pc = "generated"
    /\ args.proxies = <<Named(Str("N_1")), ProxyN, Named(Str("N!"))>>
    /\ args.output_dir = Str("out")
    /\ files[OldFile] = TextFile(Str("old"))
    /\ result = PyList(<<PyStr(Str("out/N_1.yaml")), PyStr(Str("out/N_2.yaml")),
                         PyStr(Str("out/N_3.yaml"))>>)

-----------------------------------------------------------------------------
(* The template of generate_individual_yaml_files.                         *)

\* The document generated for proxy number k.
DocumentOf(k) == files[result.items[k].s]

\* The document of proxy k holds no record and no name of a proxy handled
\* before it, a record or name that proxy k has itself aside.
NothingOfEarlier(k) ==
    \A j \in 1..(k - 1) :
        /\ args.proxies[j] # args.proxies[k]
              => ~\E m \in 1..Len(ProxiesOf(DocumentOf(k))) :
                     ProxiesOf(DocumentOf(k))[m] = args.proxies[j]
        /\ args.proxies[j].name # args.proxies[k].name
              => \A i \in 1..Len(GroupsOf(DocumentOf(k))) :
                     HasMemberList(GroupsOf(DocumentOf(k))[i])
                         => ~PyIn(args.proxies[j].name,
                                  Members(GroupsOf(DocumentOf(k))[i]))

\* C24: generate_individual_yaml_files never mutates the template it is
\* given.  After the files of any number of proxies have been generated
\* the template has the proxies, proxy-groups and other keys it had before
\* the call, and the document generated for a proxy holds nothing of the
\* proxies handled before it.
C24_TemplateNotMutated ==
    /\ pc \in {"gen_loop", "generated", "raised"} => data = loaded
    /\ pc \in {"gen_loop", "generated"} =>
          \A k \in 1..Len(result.items) : NothingOfEarlier(k)

\* The call was handed a document with a record and with groups that name
\* it, and has returned the files of two proxies: the template is as it
\* was, and the second document differs from it and has the second proxy
\* alone.
C24_Witness ==
    /\ pc = "generated" /\ args.template_data = TypicalConfig
    /\ args.proxies = <<ProxyM, ProxyLowerN>>
    /\ data = TypicalConfig
    /\ DocumentOf(2) # data
    /\ ProxiesOf(DocumentOf(2)) = <<ProxyLowerN>>
    /\ \E i \in 1..Len(GroupsOf(DocumentOf(2))) :
          /\ HasMemberList(GroupsOf(DocumentOf(2))[i])
          /\ GroupsOf(DocumentOf(2))[i] # GroupsOf(data)[i]
          /\ PyIn(ProxyLowerN.name, Members(GroupsOf(DocumentOf(2))[i]))

-----------------------------------------------------------------------------
(* gui_app_v2.py: the window's proxy groups and its document.  A text box  *)
(* for links is held as the list of records its content converts to (the  *)
(* conversion is parse_subscription and convert_links_to_proxies above);   *)
(* the placeholder text and an empty box stand for no record.  The preview *)
(* text, the status line and the message boxes are output only and are     *)
(* left out, as is the individual-files mode, which hides the groups.      *)

MainGroupName == <<128640, 32>> \o Str("PROXY")
KeyName == Str("name")
Direct == PyStr(Str("DIRECT"))
Reject == PyStr(Str("REJECT"))

\* Lines 29-34, class ProxyGroup; id tells the objects apart.
ProxyGroup(name, id) ==
    [name |-> name, proxies |-> <<>>, manual_node_name |-> <<128640, 32>> \o name,
     id |-> id]

\* What update_config_with_proxy_groups leaves: nothing or the exception,
\* and the document.
GuiOutcome(r, doc) == [result |-> r, config_data |-> doc]

\* Lines 670-674: the records of all groups, then the manual ones.
RECURSIVE AllProxies(_, _)
AllProxies(groups, manual_proxies) ==
    IF groups = <<>> THEN manual_proxies
    ELSE groups[1].proxies \o AllProxies(Tail(groups), manual_proxies)

\* Lines 677-680: the proxies list is emptied and filled again in place; a
\* mapping can be emptied but not extended, anything else can be neither.
ProxiesReplaced(doc, all_proxies) ==
    IF doc.kind # "dict" THEN GuiOutcome(Raised("TypeError"), doc)
    ELSE IF DictGet(Ensured(doc, KeyProxies), KeyProxies, None).kind = "list"
    THEN GuiOutcome(None, DictSet(doc, KeyProxies, PyList(all_proxies)))
    ELSE IF DictGet(doc, KeyProxies, None).kind = "dict"
    THEN GuiOutcome(Raised("AttributeError"), DictSet(doc, KeyProxies, PyDict(<<>>)))
    ELSE GuiOutcome(Raised("AttributeError"), doc)

\* Line 688.
IsMainSelect(group) ==
    /\ group.kind = "dict"
    /\ DictGet(group, KeyName, None) = PyStr(MainGroupName)
    /\ DictGet(group, KeyType, None) = PyStr(Select)

\* Lines 691-692 and 725: a mapping that is no main group, whose type is
\* none of the speed-test types and whose name is not the main group's.
IsOtherBase(group) ==
    /\ ~IsMainSelect(group)
    /\ group.kind = "dict"
    /\ DictGet(group, KeyType, None) \notin {PyStr(UrlTest), PyStr(Fallback), PyStr(LoadBalance)}
    /\ DictGet(group, KeyName, None) # PyStr(MainGroupName)

\* Lines 684-697: the last main group of the template, or a new one.
MainSelectGroup(groups) ==
    IF \E k \in 1..Len(groups) : IsMainSelect(groups[k])
    THEN groups[CHOOSE k \in 1..Len(groups) :
                   /\ IsMainSelect(groups[k])
                   /\ \A j \in (k + 1)..Len(groups) : ~IsMainSelect(groups[j])]
    ELSE PyDict(<<Entry("name", PyStr(MainGroupName)), Entry("type", PyStr(Select)),
                  Entry("proxies", PyList(<<>>))>>)

\* Lines 702-709: the url-test group of a ProxyGroup.
SpeedtestGroup(proxy_group) ==
    PyDict(<<Entry("name", PyStr(proxy_group.name)),
             Entry("type", PyStr(UrlTest)),
             Entry("url", PyStr(Str("http://www.gstatic.com/generate_204"))),
             Entry("interval", PyInt(900)),
             Entry("proxies", PyList([k \in 1..Len(proxy_group.proxies) |->
                                         proxy_group.proxies[k].name]))>>)

\* Lines 699-710: one group for every ProxyGroup that has records.
RECURSIVE NewSpeedtestGroups(_)
NewSpeedtestGroups(groups) ==
    IF groups = <<>> THEN <<>>
    ELSE (IF groups[1].proxies # <<>> THEN <<SpeedtestGroup(groups[1])>> ELSE <<>>)
            \o NewSpeedtestGroups(Tail(groups))

\* Line 714: [p for p in ... if p in ['DIRECT', 'REJECT']]
Kept(members) == SelectSeq(Iterated(members), LAMBDA p : p \in {Direct, Reject})

\* Lines 714-719: the main group with its list made anew.
MainFilled(main_select_group, new_speedtest_groups, manual_proxies) ==
    IF ~Iterable(DictGet(main_select_group, KeyProxies, PyList(<<>>)))
    THEN Raised("TypeError")
    ELSE DictSet(main_select_group, KeyProxies,
                 PyList(Kept(DictGet(main_select_group, KeyProxies, PyList(<<>>)))
                        \o [k \in 1..Len(new_speedtest_groups) |->
                               DictGet(new_speedtest_groups[k], KeyName, None)]
                        \o [k \in 1..Len(manual_proxies) |-> manual_proxies[k].name]))

\* Lines 729-732: the proxy-groups list is emptied and filled again in
\* place, main being the main group with its new list.
GroupsReplaced(doc, main, final_groups) ==
    IF IsRaised(main) THEN GuiOutcome(main, doc)
    ELSE IF DictGet(Ensured(doc, KeyProxyGroups), KeyProxyGroups, None).kind = "list"
    THEN GuiOutcome(None, DictSet(doc, KeyProxyGroups, PyList(final_groups)))
    ELSE IF DictGet(doc, KeyProxyGroups, None).kind = "dict"
    THEN GuiOutcome(Raised("AttributeError"), DictSet(doc, KeyProxyGroups, PyDict(<<>>)))
    ELSE GuiOutcome(Raised("AttributeError"), doc)

\* Lines 682-732, groups being what list(config_data['proxy-groups']) goes
\* through and main the main group with its new list.
GroupsRebuilt(doc, groups, new_speedtest_groups, main) ==
    GroupsReplaced(doc, main,
                   new_speedtest_groups \o <<main>> \o SelectSeq(groups, IsOtherBase))

\* Lines 682-732 for a document whose proxies list has been replaced.
GroupsUpdated(doc, groups, new_speedtest_groups, manual_proxies) ==
    GroupsRebuilt(doc, groups, new_speedtest_groups,
                  MainFilled(MainSelectGroup(groups), new_speedtest_groups, manual_proxies))

\* Lines 682-732, o being what lines 670-680 left.
ProxyGroupsUpdated(o, groups, manual_proxies) ==
    IF IsRaised(o.result) THEN o
    ELSE IF ~DictHas(o.config_data, KeyProxyGroups)
    THEN GroupsUpdated(o.config_data, <<>>, NewSpeedtestGroups(groups), manual_proxies)
    ELSE IF ~Iterable(DictGet(o.config_data, KeyProxyGroups, None))
    THEN GuiOutcome(Raised("TypeError"), o.config_data)
    ELSE GroupsUpdated(o.config_data, Iterated(DictGet(o.config_data, KeyProxyGroups, None)),
                       NewSpeedtestGroups(groups), manual_proxies)

update_config_with_proxy_groups(doc, groups, manual_proxies) ==
    ProxyGroupsUpdated(ProxiesReplaced(doc, AllProxies(groups, manual_proxies)),
                       groups, manual_proxies)

\* Line 225: the name a new group is given, n groups being there.
GroupName(n) == <<27979, 36895, 32452>> \o Decimal(n + 1)

\* Lines 239-310: the widget of a group, made when there are n groups; it
\* has a delete button only if n > 1, and its text box starts with the
\* placeholder.
create_group_widget(index, proxy_group, n) ==
    [index |-> index, group |-> proxy_group.id, deletable |-> n > 1, textbox |-> <<>>]

\* Lines 330-340.
recreate_all_group_widgets(groups) ==
    [i \in 1..Len(groups) |-> create_group_widget(i - 1, groups[i], Len(groups))]

\* del list[index], index counted from 0.
Deleted(list, index) ==
    [i \in 1..(Len(list) - 1) |-> IF i <= index THEN list[i] ELSE list[i + 1]]

\* Templates the window may be given: a usual one with a main group, one
\* whose main group is of another type and that has no list of records,
\* and one that is a list.
GuiTemplates ==
    {<<Str("m.yaml"),
       PyDict(<<Entry("port", PyInt(7890)),
                Entry("proxies", PyList(<<OldProxy>>)),
                Entry("proxy-groups",
                      PyList(<<PyDict(<<Entry("name", PyStr(MainGroupName)),
                                        Entry("type", PyStr(Select)),
                                        Entry("proxies",
                                              NameList(<<"DIRECT", "auto", "old">>))>>),
                               Group("auto", "url-test", NameList(<<"old">>)),
                               Group("manual", "select",
                                     NameList(<<"DIRECT", "auto", "old">>))>>)),
                Entry("rules", Rules)>>)>>,
     <<Str("r.yaml"),
       PyDict(<<Entry("proxy-groups",
                      PyList(<<PyDict(<<Entry("name", PyStr(MainGroupName)),
                                        Entry("type", PyStr(Str("relay"))),
                                        Entry("proxies", NameList(<<"DIRECT">>))>>),
                               Group("lb", "load-balance", NameList(<<>>)),
                               PyStr(Str("stray"))>>)),
                Entry("proxies", None)>>)>>,
     <<Str("l.yaml"), PyList(<<OldProxy>>)>>}

\* What the text box of a group and the manual text box may come to hold,
\* and the names typed into a group's name entry.
GroupContents == {<<>>, <<ProxyN>>}
ManualContents == {<<>>, <<ProxyM, Named(Str("DIRECT"))>>}
TypedNames == {MainGroupName}

MaxCreated == 3
MaxUpdates == 2

\* Lines 37-58: the window after __init__, which adds the first group
\* (line 217); the template files are there to be loaded.
InitGui ==
    /\ pc = "start"
    /\ files = [q \in {c[1] : c \in GuiTemplates} |->
                   (CHOOSE c \in GuiTemplates : c[1] = q)[2]]
    /\ self_config_data = PyDict(<<>>) /\ template_loaded = FALSE
    /\ proxy_groups = <<ProxyGroup(GroupName(0), 1)>>
    /\ group_widgets = <<create_group_widget(0, ProxyGroup(GroupName(0), 1), 1)>>
    /\ manual_textbox = <<>> /\ created = 1
    /\ args = None /\ loaded = None /\ data = None /\ calls = 0
    /\ result = None
    /\ inLink = None /\ content = <<>>
    /\ links = <<>> /\ idx = 0 /\ proxies = <<>>
    /\ stdio = <<>>

GuiFrame ==
    UNCHANGED <<files, args, loaded, data, linkVars, subVars, convertVars, mainVars>>

\* Lines 486-489: a key that is missing or null gets an empty list.
ListIfNone(doc, key) ==
    IF DictGet(doc, key, None) = None THEN DictSet(doc, key, PyList(<<>>)) ELSE doc

\* Lines 480-506, doc being what the file loads to: a document that is no
\* mapping has no get, and the failure is caught after the assignment of
\* line 484.
TemplateLoaded(doc) ==
    IF doc.kind # "dict"
    THEN /\ self_config_data' = doc
         /\ result' = Raised("AttributeError")
         /\ UNCHANGED template_loaded
    ELSE /\ self_config_data' =
                ListIfNone(ListIfNone(ListIfNone(doc, KeyProxies), KeyProxyGroups), KeyRules)
         /\ result' = None
         /\ template_loaded' = TRUE

\* A template is loaded into a window that has none yet.
load_template_file ==
    /\ ~template_loaded
    /\ \E file_path \in DOMAIN files : TemplateLoaded(YamlLoad(files, file_path))
    /\ pc' = "load_template_file"
    /\ UNCHANGED <<proxy_groups, group_widgets, manual_textbox, created, calls>>
    /\ GuiFrame

\* Lines 222-237.
add_proxy_group ==
    /\ created < MaxCreated
    /\ proxy_groups' =
          Append(proxy_groups, ProxyGroup(GroupName(Len(proxy_groups)), created + 1))
    /\ group_widgets' =
          Append(group_widgets,
                 create_group_widget(Len(proxy_groups),
                                     ProxyGroup(GroupName(Len(proxy_groups)), created + 1),
                                     Len(proxy_groups) + 1))
    /\ created' = created + 1
    /\ pc' = "add_proxy_group"
    /\ UNCHANGED <<self_config_data, template_loaded, manual_textbox, result, calls>>
    /\ GuiFrame

\* The refusal that asks for no check of the number of groups.
RefusedNever(groups) == FALSE

\* Line 314: len(self.proxy_groups) <= 1
Refused(groups) == Len(groups) <= 1

\* Lines 312-328, called for the index of a widget.  (The only widget of a
\* window has no delete button, so the window itself never calls it with
\* one group left.)
remove_proxy_group ==
    /\ \E index \in {group_widgets[i].index : i \in 1..Len(group_widgets)} :
          IF Refused(proxy_groups)
          THEN /\ pc' = "remove_refused"
               /\ UNCHANGED <<proxy_groups, group_widgets>>
          ELSE /\ proxy_groups' = Deleted(proxy_groups, index)
               /\ group_widgets' = recreate_all_group_widgets(proxy_groups')
               /\ pc' = "remove_proxy_group"
    /\ UNCHANGED <<self_config_data, template_loaded, manual_textbox, created, result, calls>>
    /\ GuiFrame

\* Lines 342-356, called by the name entry of a widget.
on_group_name_change ==
    /\ \E i \in 1..Len(group_widgets), new_name \in TypedNames :
          /\ group_widgets[i].index < Len(proxy_groups)
          /\ proxy_groups' =
                [proxy_groups EXCEPT ![group_widgets[i].index + 1] =
                    [@ EXCEPT !.name = new_name,
                              !.manual_node_name = <<128640, 32>> \o new_name]]
    /\ pc' = "on_group_name_change"
    /\ UNCHANGED <<self_config_data, template_loaded, group_widgets, manual_textbox,
                   created, result, calls>>
    /\ GuiFrame

\* Lines 613-631: every group gets the records of its widget's text box.
GroupsFromWidgets(groups, widgets) ==
    [i \in 1..Len(groups) |-> [groups[i] EXCEPT !.proxies = widgets[i].textbox]]

\* Lines 649-666, o being what update_config_with_proxy_groups left; an
\* exception is caught and shown.
ConfigGenerated(o) ==
    /\ self_config_data' = o.config_data
    /\ result' = o.result

\* Lines 601-666 with a template loaded.  The text boxes for DNS and rules
\* hold what populate_ui_from_config wrote there, so that line 603 puts
\* back the values the document has.
generate_config ==
    /\ proxy_groups' = GroupsFromWidgets(proxy_groups, group_widgets')
    /\ ConfigGenerated(update_config_with_proxy_groups(self_config_data, proxy_groups',
                                                       manual_textbox'))
    /\ calls' = calls + 1
    /\ pc' = "generate_config"

\* A key is released in the text box of a group or in the manual text box,
\* which then holds text for the records ps; lines 559-566 in the merged
\* mode: with a template loaded the document is generated anew.
on_subscription_change ==
    /\ calls < MaxUpdates
    /\ \/ \E ps \in ManualContents :
             manual_textbox' = ps /\ UNCHANGED group_widgets
       \/ \E box \in 1..Len(group_widgets), ps \in GroupContents :
             /\ group_widgets' = [group_widgets EXCEPT ![box].textbox = ps]
             /\ UNCHANGED manual_textbox
    /\ IF template_loaded
       THEN generate_config
       ELSE /\ pc' = "on_subscription_change"
            /\ UNCHANGED <<self_config_data, proxy_groups, result, calls>>
    /\ UNCHANGED <<template_loaded, created>>
    /\ GuiFrame

NextGui ==
    \/ load_template_file
    \/ add_proxy_group
    \/ remove_proxy_group
    \/ on_group_name_change
    \/ on_subscription_change

SpecGui == InitGui /\ [][NextGui]_vars

\* The window before a template is loaded: groups are added, removed and
\* named, and links are typed.
NextGroups ==
    \/ add_proxy_group
    \/ remove_proxy_group
    \/ on_group_name_change
    \/ on_subscription_change

SpecGroups == InitGui /\ [][NextGroups]_vars

-----------------------------------------------------------------------------
(* Claims about the window's groups, checked under SpecGroups.             *)

\* The names add_proxy_group can give.
GeneratedNames == {GroupName(n) : n \in 0..MaxCreated}

\* C25: after any sequence of add_proxy_group and remove_proxy_group the
\* names that add_proxy_group gave to the groups there are pairwise
\* distinct.
C25_GeneratedNamesDistinct ==
    \A i, j \in 1..Len(proxy_groups) :
        (/\ i # j
         /\ proxy_groups[i].name \in GeneratedNames
         /\ proxy_groups[j].name \in GeneratedNames)
            => proxy_groups[i].name # proxy_groups[j].name

\* Widget number i is the one made for group number i, with index i - 1.
WidgetsMatch(groups, widgets) ==
    /\ Len(widgets) = Len(groups)
    /\ \A i \in 1..Len(groups) :
          widgets[i].group = groups[i].id /\ widgets[i].index = i - 1

\* C28: after any sequence of add_proxy_group and remove_proxy_group there
\* is at least one group, proxy_groups and group_widgets have the same
\* length with matching positions, and removing the last group left is
\* refused and changes nothing.
C28_OneGroupStaysWidgetsMatch ==
    [][/\ Len(proxy_groups) >= 1 /\ Len(proxy_groups') >= 1
       /\ WidgetsMatch(proxy_groups, group_widgets)
       /\ WidgetsMatch(proxy_groups', group_widgets')
       /\ (Len(proxy_groups) = 1 /\ pc' \in {"remove_proxy_group", "remove_refused"})
             => /\ pc' = "remove_refused"
                /\ proxy_groups' = proxy_groups
                /\ group_widgets' = group_widgets]_vars

\* A second group was added and the first removed; the removal of the one
\* that is left has been refused, and its widget is the one made for it.
C28_Witness ==
    /\ pc = "remove_refused"
    /\ Len(proxy_groups) = 1 /\ proxy_groups[1].id = 2
    /\ group_widgets = <<create_group_widget(0, proxy_groups[1], 1)>>

-----------------------------------------------------------------------------
(* Claims about the window's document, checked under SpecGui.              *)

\* The groups of the document that are mappings named as the main group.
MainGroups(doc) ==
    {k \in 1..Len(GroupsOf(doc)) :
        /\ GroupsOf(doc)[k].kind = "dict"
        /\ DictGet(GroupsOf(doc)[k], KeyName, None) = PyStr(MainGroupName)}

\* The step is a call of update_config_with_proxy_groups that returned.
Regenerated == pc' = "generate_config" /\ ~IsRaised(result')

\* The step is such a call right after another, with the same groups and
\* the same manual proxies.
RegeneratedTheSame ==
    /\ pc = "generate_config" /\ ~IsRaised(result)
    /\ Regenerated
    /\ proxy_groups' = proxy_groups /\ manual_textbox' = manual_textbox

\* C26: regeneration in the window is idempotent.  A second call of
\* update_config_with_proxy_groups with the same groups and the same manual
\* proxies leaves config_data as the first call left it, and after every
\* call exactly one group named as the main group is in proxy-groups.
C26_RegenerationIdempotent ==
    [][/\ RegeneratedTheSame => self_config_data' = self_config_data
       /\ Regenerated => Cardinality(MainGroups(self_config_data')) = 1]_vars

\* The names of the groups and of the records of the document.
GroupNamesOf(doc) ==
    {DictGet(GroupsOf(doc)[k], KeyName, None) :
        k \in {j \in 1..Len(GroupsOf(doc)) : GroupsOf(doc)[j].kind = "dict"}}
ProxyNamesOf(doc) == {ProxiesOf(doc)[k].name : k \in 1..Len(ProxiesOf(doc))}

\* C27: after update_config_with_proxy_groups no group reference dangles.
\* Every entry of every group's proxies list in config_data is DIRECT,
\* REJECT or PASS, the name of a group that is in proxy-groups, or the name
\* of a record that is in proxies; this holds also for the entries of
\* template groups that named groups or records the rebuild removed.
C27_NoDanglingReference ==
    (pc = "generate_config" /\ ~IsRaised(result)) =>
        \A k \in 1..Len(GroupsOf(self_config_data)) :
            HasMemberList(GroupsOf(self_config_data)[k]) =>
                \A m \in 1..Len(Members(GroupsOf(self_config_data)[k])) :
                    Members(GroupsOf(self_config_data)[k])[m]
                        \in Sentinels \cup GroupNamesOf(self_config_data)
                                \cup ProxyNamesOf(self_config_data)

====
